---------------------------- MODULE Spec2Model ----------------------------
(***************************************************************************)
(* Resume screening pipeline (src/screening): the orchestrator             *)
(* screen_candidates, the JD parser, the resume loader, the three scoring  *)
(* agents with their LLM query/parse step, the factual baseline and the    *)
(* score combiner.                                                         *)
(*                                                                         *)
(* Number representation.  Python floats are modelled by exact scaled      *)
(* integers:                                                               *)
(*   - an AgentResult score is kept in tenths of a point (705 = 70.5);     *)
(*   - a total_score is kept in hundredths of a point (6213 = 62.13);      *)
(*   - inside an agent the unrounded baseline and final score are kept in  *)
(*     units of 1/Scale of a point, so that years/min_required * 70 * 0.6  *)
(*     is exact.                                                           *)
(* round(x, n) is modelled as round-half-to-even on the exact value; on a  *)
(* decimal tie the float result of Python may differ by one last digit.    *)
(*                                                                         *)
(* Text representation.  A Python str is a sequence of one-character       *)
(* strings, so that lower(), strip(), == and the substring test `in` are   *)
(* computed.  An LLM response is a sequence of tokens (fence markers,      *)
(* prose, one JSON value), on which `in`, split and json.loads are         *)
(* computed.                                                               *)
(***************************************************************************)
EXTENDS Integers, Sequences, FiniteSets, TLC

(***************************************************************************)
(* Bounds of the model                                                     *)
(***************************************************************************)
\* largest number of *.json files in the resume directory
MaxFiles == 2

(***************************************************************************)
(* Arithmetic helpers                                                      *)
(***************************************************************************)
\* units per point of the unrounded agent arithmetic
Scale == 100 * 12

Min2(a, b) == IF a <= b THEN a ELSE b
Max2(a, b) == IF a >= b THEN a ELSE b

\* max(lo, min(hi, x))
Clamp(x, lo, hi) == Max2(lo, Min2(hi, x))


\* round(n / d) to the nearest integer, ties to even (n >= 0, d > 0)
RoundHalfEven(n, d) ==
    LET q == n \div d
        r == n % d
    IN  IF 2 * r < d THEN q
        ELSE IF 2 * r > d THEN q + 1
        ELSE IF q % 2 = 0 THEN q ELSE q + 1

(***************************************************************************)
(* Strings as character sequences                                          *)
(***************************************************************************)
UpperToLower ==
    ("A" :> "a") @@ ("B" :> "b") @@ ("C" :> "c") @@ ("D" :> "d") @@
    ("E" :> "e") @@ ("F" :> "f") @@ ("G" :> "g") @@ ("H" :> "h") @@
    ("I" :> "i") @@ ("J" :> "j") @@ ("K" :> "k") @@ ("L" :> "l") @@
    ("M" :> "m") @@ ("N" :> "n") @@ ("O" :> "o") @@ ("P" :> "p") @@
    ("Q" :> "q") @@ ("R" :> "r") @@ ("S" :> "s") @@ ("T" :> "t") @@
    ("U" :> "u") @@ ("V" :> "v") @@ ("W" :> "w") @@ ("X" :> "x") @@
    ("Y" :> "y") @@ ("Z" :> "z")

\* str.lower()
Lower(s) ==
    [i \in 1..Len(s) |-> IF s[i] \in DOMAIN UpperToLower
                         THEN UpperToLower[s[i]] ELSE s[i]]

\* str.strip(): leading and trailing blanks removed
Strip(s) ==
    LET nonblank == {i \in 1..Len(s) : s[i] # " "}
    IN  IF nonblank = {} THEN <<>>
        ELSE LET lo == CHOOSE i \in nonblank : \A j \in nonblank : i <= j
                 hi == CHOOSE i \in nonblank : \A j \in nonblank : i >= j
             IN  SubSeq(s, lo, hi)

\* kw in text  (substring test)
Contains(text, kw) ==
    \E i \in 1..(Len(text) - Len(kw) + 1) :
        SubSeq(text, i, i + Len(kw) - 1) = kw

\* any(kw in text for kw in kws)
ContainsAny(text, kws) == \E k \in 1..Len(kws) : Contains(text, kws[k])

\* " ".join(strs)
RECURSIVE JoinSpace(_)
JoinSpace(strs) ==
    IF strs = <<>> THEN <<>>
    ELSE IF Len(strs) = 1 THEN strs[1]
    ELSE strs[1] \o <<" ">> \o JoinSpace(Tail(strs))

Str_Python == <<"P", "y", "t", "h", "o", "n">>
Str_SQL_padded == <<" ", "S", "Q", "L", " ">>
Str_Java == <<"J", "a", "v", "a">>
Str_sql_lc == <<"s", "q", "l">>
Str_JavaScript == <<"J", "a", "v", "a", "S", "c", "r", "i", "p", "t">>
Str_BSc_Physics == <<"B", ".", "S", "c", " ", "P", "h", "y", "s", "i", "c", "s">>
Str_MS_Data_Science == <<"M", "S", " ", "D", "a", "t", "a", " ", "S", "c", "i", "e", "n", "c", "e">>
Str_Bachelor_of_Arts == <<"B", "a", "c", "h", "e", "l", "o", "r", " ", "o", "f", " ", "A", "r", "t", "s">>
Str_Git == <<"G", "i", "t">>
Str_BTech_CS == <<"B", ".", "T", "e", "c", "h", " ", "C", "S">>
Str_BA_History == <<"B", "A", " ", "H", "i", "s", "t", "o", "r", "y">>
Str_Data_Engineer == <<"D", "a", "t", "a", " ", "E", "n", "g", "i", "n", "e", "e", "r">>
Str_Sales_Manager == <<"S", "a", "l", "e", "s", " ", "M", "a", "n", "a", "g", "e", "r">>

(***************************************************************************)
(* Keyword tables of utils/factual_extraction.py                           *)
(***************************************************************************)
high_relevance ==
    << <<"c", "o", "m", "p", "u", "t", "e", "r", " ", "s", "c", "i", "e", "n", "c", "e">>,
       <<"s", "o", "f", "t", "w", "a", "r", "e", " ", "e", "n", "g", "i", "n", "e", "e", "r", "i", "n", "g">>,
       <<"i", "n", "f", "o", "r", "m", "a", "t", "i", "o", "n", " ", "t", "e", "c", "h", "n", "o", "l", "o", "g", "y">>,
       <<"c", "s">>,
       <<"c", "o", "m", "p", "u", "t", "e", "r", " ", "e", "n", "g", "i", "n", "e", "e", "r", "i", "n", "g">> >>

medium_relevance ==
    << <<"e", "n", "g", "i", "n", "e", "e", "r", "i", "n", "g">>,
       <<"e", "l", "e", "c", "t", "r", "o", "n", "i", "c", "s">>,
       <<"t", "e", "l", "e", "c", "o", "m", "m", "u", "n", "i", "c", "a", "t", "i", "o", "n">>,
       <<"m", "a", "t", "h", "e", "m", "a", "t", "i", "c", "s">>,
       <<"p", "h", "y", "s", "i", "c", "s">>,
       <<"d", "a", "t", "a", " ", "s", "c", "i", "e", "n", "c", "e">> >>

generic_degree ==
    << <<"b", "a", "c", "h", "e", "l", "o", "r">>,
       <<"b", ".", "t", "e", "c", "h">>,
       <<"b", ".", "e">>,
       <<"m", "a", "s", "t", "e", "r">>,
       <<"m", ".", "t", "e", "c", "h">> >>

relevant_keywords ==
    << <<"s", "o", "f", "t", "w", "a", "r", "e">>,
       <<"d", "e", "v", "e", "l", "o", "p", "e", "r">>,
       <<"e", "n", "g", "i", "n", "e", "e", "r">>,
       <<"p", "r", "o", "g", "r", "a", "m", "m", "e", "r">>,
       <<"t", "e", "c", "h", "n", "i", "c", "a", "l">>,
       <<"b", "a", "c", "k", "e", "n", "d">>,
       <<"f", "r", "o", "n", "t", "e", "n", "d">>,
       <<"f", "u", "l", "l", "s", "t", "a", "c", "k">>,
       <<"d", "e", "v", "o", "p", "s">>,
       <<"d", "a", "t", "a">> >>

(***************************************************************************)
(* Resume documents.  A document is what one *.json file holds:            *)
(*   parse      "dict" | "list" | "error": what json.load makes of it      *)
(*   has_personal_info, has_name, name, has_email: the personal_info keys  *)
(*   technical, tools: skills.technical, skills.tools                      *)
(*   projects: sequence of [technologies]; education: sequence of [degree] *)
(*   experience: sequence of [position, start_date, end_date]              *)
(* A date string is [kind |-> "ym", y, m] (parseable month and year),      *)
(* [kind |-> "present"] or [kind |-> "bad"] (not parseable).               *)
(***************************************************************************)
\* datetime.now() of the run
NowDate == [y |-> 2024, m |-> 1]

DatePresent == [kind |-> "present", y |-> 0, m |-> 0]
DateBad == [kind |-> "bad", y |-> 0, m |-> 0]
DateYM(year, month) == [kind |-> "ym", y |-> year, m |-> month]

\* a complete resume: relevant degree, relevant role, 3.5 years
DocAnn ==
    [ parse |-> "dict", has_personal_info |-> TRUE, has_name |-> TRUE,
      name |-> "Ann", has_email |-> TRUE,
      technical |-> <<Str_Python, Str_SQL_padded>>, tools |-> <<Str_Git>>,
      projects |-> << [technologies |-> <<Str_Python>>] >>,
      education |-> << [degree |-> Str_BTech_CS] >>,
      experience |-> << [position |-> Str_Data_Engineer,
                         start_date |-> DateYM(2020, 7),
                         end_date |-> DatePresent] >> ]

\* passes the loader (it has a name) but has no personal_info.email key
DocBob ==
    [ parse |-> "dict", has_personal_info |-> TRUE, has_name |-> TRUE,
      name |-> "Bob", has_email |-> FALSE,
      technical |-> <<>>, tools |-> <<>>, projects |-> <<>>,
      education |-> << [degree |-> Str_BA_History] >>,
      experience |-> << [position |-> Str_Sales_Manager,
                         start_date |-> DateBad,
                         end_date |-> DateYM(2023, 1)] >> ]

EmptyDoc ==
    [ parse |-> "dict", has_personal_info |-> TRUE, has_name |-> TRUE,
      name |-> "", has_email |-> FALSE,
      technical |-> <<>>, tools |-> <<>>, projects |-> <<>>,
      education |-> <<>>, experience |-> <<>> ]

\* name and email only: no skills, no education, no experience
DocCy == [EmptyDoc EXCEPT !.name = "Cy", !.has_email = TRUE]

\* personal_info.name is the empty string
DocNoName == EmptyDoc
\* no personal_info section at all
DocNoPersonalInfo ==
    [EmptyDoc EXCEPT !.has_personal_info = FALSE, !.has_name = FALSE]
\* the file is not JSON
DocBadJson ==
    [EmptyDoc EXCEPT !.parse = "error", !.has_personal_info = FALSE,
                     !.has_name = FALSE]

\* The files are named after their content; the state holds the names.
DocNames == {"ann", "bob", "cy", "noname", "no_personal_info", "badjson"}

Document(file) ==
    CASE file = "ann" -> DocAnn
      [] file = "bob" -> DocBob
      [] file = "cy" -> DocCy
      [] file = "noname" -> DocNoName
      [] file = "no_personal_info" -> DocNoPersonalInfo
      [] file = "badjson" -> DocBadJson

\* the listings directory.glob("*.json") can return
RECURSIVE SeqsUpTo(_, _)
SeqsUpTo(S, n) ==
    IF n = 0 THEN {<<>>}
    ELSE LET shorter == SeqsUpTo(S, n - 1)
         IN  shorter \cup {Append(q, x) : q \in {r \in shorter : Len(r) = n - 1}, x \in S}

Listings == SeqsUpTo(DocNames, MaxFiles)

(***************************************************************************)
(* utils/factual_extraction.py                                             *)
(***************************************************************************)
RECURSIVE Flatten(_)
Flatten(seqs) ==
    IF seqs = <<>> THEN <<>> ELSE Head(seqs) \o Flatten(Tail(seqs))

\* extract_skills: set(s.strip() for s in technical + tools + project
\* technologies if s); the order of the resulting list is that of a set
extract_skills(candidate) ==
    LET ptech == Flatten([i \in 1..Len(candidate.projects) |->
                             candidate.projects[i].technologies])
        skills == candidate.technical \o candidate.tools \o ptech
    IN  {Strip(skills[i]) : i \in {j \in 1..Len(skills) : skills[j] # <<>>}}

\* match_skills matching a required skill that is part of a candidate skill
match_skills_substring(candidate_skills, required_skills) ==
    LET IsMatch(req_skill) ==
            \E s \in candidate_skills : Contains(Strip(Lower(s)), Strip(Lower(req_skill)))
    IN  [ matched |-> SelectSeq(required_skills, IsMatch),
          missing |-> SelectSeq(required_skills, LAMBDA r : ~IsMatch(r)) ]

\* match_skills: (matched, missing), each in the order of required_skills
match_skills(candidate_skills, required_skills) ==
    LET candidate_lower == {Strip(Lower(s)) : s \in candidate_skills}
        IsMatch(req_skill) == Strip(Lower(req_skill)) \in candidate_lower
    IN  [ matched |-> SelectSeq(required_skills, IsMatch),
          missing |-> SelectSeq(required_skills, LAMBDA r : ~IsMatch(r)) ]

\* the months of a position, one whose dates cannot be parsed counting 0
PositionMonths_skip_unparseable(exp) ==
    IF exp.start_date.kind # "ym" THEN 0
    ELSE IF exp.end_date.kind = "bad" THEN 0
    ELSE LET end_date == IF exp.end_date.kind = "present" THEN NowDate
                         ELSE exp.end_date
             months == (end_date.y - exp.start_date.y) * 12
                       + (end_date.m - exp.start_date.m)
         IN  Max2(0, months)

\* the months one position contributes in calculate_experience_years
PositionMonths(exp) ==
    IF exp.start_date.kind # "ym" THEN 12
    ELSE IF exp.end_date.kind = "bad" THEN 12
    ELSE LET end_date == IF exp.end_date.kind = "present" THEN NowDate
                         ELSE exp.end_date
             months == (end_date.y - exp.start_date.y) * 12
                       + (end_date.m - exp.start_date.m)
         IN  Max2(0, months)

RECURSIVE SumMonths(_)
SumMonths(experience) ==
    IF experience = <<>> THEN 0
    ELSE PositionMonths(Head(experience)) + SumMonths(Tail(experience))

\* calculate_experience_years, in tenths of a year: round(total_months / 12, 1)
calculate_experience_years(candidate) ==
    IF candidate.experience = <<>> THEN 0
    ELSE RoundHalfEven(SumMonths(candidate.experience) * 10, 12)

\* check_education_relevance looking at the medium tier before the high one
check_education_relevance_medium_first(candidate) ==
    LET education == candidate.education
        degrees == [i \in 1..Len(education) |-> education[i].degree]
        degrees_text == Lower(JoinSpace(degrees))
    IN  IF education = <<>>
        THEN [score |-> 0, relevant |-> FALSE, degrees |-> <<>>]
        ELSE IF ContainsAny(degrees_text, medium_relevance)
        THEN [score |-> 70, relevant |-> TRUE, degrees |-> degrees]
        ELSE IF ContainsAny(degrees_text, high_relevance)
        THEN [score |-> 100, relevant |-> TRUE, degrees |-> degrees]
        ELSE IF ContainsAny(degrees_text, generic_degree)
        THEN [score |-> 30, relevant |-> FALSE, degrees |-> degrees]
        ELSE [score |-> 10, relevant |-> FALSE, degrees |-> degrees]

\* check_education_relevance(candidate, "technical")
check_education_relevance(candidate) ==
    LET education == candidate.education
        degrees == [i \in 1..Len(education) |-> education[i].degree]
        degrees_text == Lower(JoinSpace(degrees))
    IN  IF education = <<>>
        THEN [score |-> 0, relevant |-> FALSE, degrees |-> <<>>]
        ELSE IF ContainsAny(degrees_text, high_relevance)
        THEN [score |-> 100, relevant |-> TRUE, degrees |-> degrees]
        ELSE IF ContainsAny(degrees_text, medium_relevance)
        THEN [score |-> 70, relevant |-> TRUE, degrees |-> degrees]
        ELSE IF ContainsAny(degrees_text, generic_degree)
        THEN [score |-> 30, relevant |-> FALSE, degrees |-> degrees]
        ELSE [score |-> 10, relevant |-> FALSE, degrees |-> degrees]

\* check_role_relevance with the keywords applied only for a job description
\* that names no domain
check_role_relevance_domain_aware(candidate, jd_requirements) ==
    LET experience == candidate.experience
        domain == IF "domain" \in jd_requirements.keys
                  THEN jd_requirements.domain ELSE ""
        all_roles == [i \in 1..Len(experience) |-> experience[i].position]
        relevant_roles ==
            SelectSeq(all_roles, LAMBDA p : domain = "" /\ ContainsAny(Lower(p), relevant_keywords))
    IN  IF experience = <<>>
        THEN [relevant |-> FALSE, relevant_roles |-> <<>>, all_roles |-> <<>>]
        ELSE [relevant |-> Len(relevant_roles) > 0,
              relevant_roles |-> relevant_roles, all_roles |-> all_roles]

\* check_role_relevance: role_level and domain of jd_requirements are read
\* but never used
check_role_relevance(candidate, jd_requirements) ==
    LET experience == candidate.experience
        role_level == IF "role_level" \in jd_requirements.keys
                      THEN jd_requirements.role_level ELSE ""
        domain == IF "domain" \in jd_requirements.keys
                  THEN jd_requirements.domain ELSE ""
        all_roles == [i \in 1..Len(experience) |-> experience[i].position]
        relevant_roles ==
            SelectSeq(all_roles, LAMBDA p : ContainsAny(Lower(p), relevant_keywords))
    IN  IF experience = <<>>
        THEN [relevant |-> FALSE, relevant_roles |-> <<>>, all_roles |-> <<>>]
        ELSE [relevant |-> Len(relevant_roles) > 0,
              relevant_roles |-> relevant_roles, all_roles |-> all_roles]

\* the skill match percentage with 0 instead of 50 for no required skills
skill_match_percentage_zero_default(matched_skills, required_skills) ==
    IF required_skills # <<>>
    THEN RoundHalfEven(Len(matched_skills) * 1000, Len(required_skills))
    ELSE 0

\* round(skill_match_percentage, 1) of get_factual_baseline, in tenths of a
\* percent
skill_match_percentage_of(matched_skills, required_skills) ==
    IF required_skills # <<>>
    THEN RoundHalfEven(Len(matched_skills) * 1000, Len(required_skills))
    ELSE 500

\* get_factual_baseline; skill_match_percentage in tenths of a percent,
\* years_of_experience in tenths of a year
get_factual_baseline(candidate, jd_requirements) ==
    LET candidate_skills == extract_skills(candidate)
        required_skills == IF "required_skills" \in jd_requirements.keys
                           THEN jd_requirements.required_skills ELSE <<>>
        m == match_skills(candidate_skills, required_skills)
        skill_match_percentage == skill_match_percentage_of(m.matched, required_skills)
        education_info == check_education_relevance(candidate)
        role_info == check_role_relevance(candidate, jd_requirements)
    IN  [ candidate_skills |-> candidate_skills,
          required_skills |-> required_skills,
          matched_skills |-> m.matched,
          missing_skills |-> m.missing,
          skill_match_percentage |-> skill_match_percentage,
          years_of_experience |-> calculate_experience_years(candidate),
          min_required_years |-> IF "min_experience_years" \in jd_requirements.keys
                                 THEN jd_requirements.min_experience_years ELSE 0,
          education_score |-> education_info.score,
          education_relevant |-> education_info.relevant,
          degrees |-> education_info.degrees,
          role_relevant |-> role_info.relevant,
          relevant_roles |-> role_info.relevant_roles,
          all_roles |-> role_info.all_roles,
          project_count |-> Len(candidate.projects) ]

(***************************************************************************)
(* JSON objects and LLM response texts.                                    *)
(* A JSON object is a record with the set `keys` of the keys it holds;     *)
(* dict.get(k, d) reads field k when k is in keys, else d.  Scores are in  *)
(* tenths of a point, an adjustment is a whole number of points.  A        *)
(* reasoning is [prefix, counts, llm]: the literal text an agent formats,  *)
(* the numbers it formats into it, and the text that came from the LLM.    *)
(* A strength or weakness is [label, items].                               *)
(***************************************************************************)
Reasoning(prefix, counts, llm) == [prefix |-> prefix, counts |-> counts, llm |-> llm]
Item(label, items) == [label |-> label, items |-> items]

\* the keys an agent answer can hold
EmptyObj ==
    [ keys |-> {}, score |-> 0, adjustment |-> 0,
      reasoning |-> Reasoning("", <<>>, ""),
      strengths |-> <<>>, weaknesses |-> <<>>, category_scores |-> {} ]

\* the keys of a job description answer that the pipeline reads
EmptyJD ==
    [ keys |-> {}, required_skills |-> <<>>, min_experience_years |-> 0,
      role_level |-> "", domain |-> "" ]

AgentKeys == {"score", "adjustment", "reasoning", "strengths", "weaknesses",
              "category_scores"}

\* an agent answer far above the ranges the prompt asks for
ObjHigh ==
    [EmptyObj EXCEPT !.keys = AgentKeys, !.score = 1500, !.adjustment = 25,
                     !.reasoning = Reasoning("", <<>>, "strong portfolio"),
                     !.strengths = <<Item("llm strength", <<>>)>>,
                     !.weaknesses = <<Item("llm weakness", <<>>)>>]
\* an agent answer far below them
ObjLow ==
    [EmptyObj EXCEPT !.keys = AgentKeys, !.score = -200, !.adjustment = -30,
                     !.reasoning = Reasoning("", <<>>, "career regression"),
                     !.strengths = <<Item("llm strength", <<>>)>>,
                     !.weaknesses = <<Item("llm weakness", <<>>)>>]
\* the requirements of the example job description of main()
ObjJD ==
    [EmptyJD EXCEPT !.keys = {"required_skills", "min_experience_years", "role_level"},
                     !.required_skills = <<Str_Python, Str_Java, Str_sql_lc>>,
                     !.min_experience_years = 2, !.role_level = "mid"]

TokFenceJson == [t |-> "fence_json", v |-> EmptyObj]   \* ```json
TokFence == [t |-> "fence", v |-> EmptyObj]            \* ```
TokProse == [t |-> "prose", v |-> EmptyObj]            \* text without { or `
TokArray == [t |-> "nonobj", v |-> EmptyObj]           \* a JSON array text
TokObj(o) == [t |-> "obj", v |-> o]                    \* a JSON object text

\* the texts in which an LLM hands over the object o
GoodResponses(o) ==
    { <<TokObj(o)>>,
      <<TokFenceJson, TokObj(o), TokFence>>,
      <<TokProse, TokFenceJson, TokObj(o), TokFence, TokProse>>,
      <<TokFence, TokObj(o), TokFence>>,
      <<TokFenceJson, TokObj(o)>> }

\* the texts that hold no object the code can get at
BadResponses ==
    { <<>>,
      <<TokProse>>,
      <<TokProse, TokObj(ObjHigh)>>,
      <<TokFenceJson, TokProse, TokFence>>,
      <<TokFence, TokProse, TokFence>>,
      <<TokFenceJson, TokFence>>,
      <<TokArray>> }

\* The answers to an agent prompt.  The prompt is built from the candidate,
\* so the object in a well-formed answer is taken to depend on the candidate:
\* far too high for the complete resume, far too low for the others.
AnswerFor(file) == IF file = "ann" THEN ObjHigh ELSE ObjLow
AgentResponses(file) == GoodResponses(AnswerFor(file)) \cup BadResponses
JDResponses == GoodResponses(ObjJD) \cup BadResponses

\* dict.get(key, default)
Get(obj, key, default) == IF key \in obj.keys THEN obj[key] ELSE default

\* the separators of the markdown branches: ```json and ```
FenceJson == "fence_json"
Fence == "fence"

\* the token is an occurrence of sep; the marker ``` is also the start of
\* ```json
IsSep(tok, sep) ==
    IF sep = FenceJson THEN tok.t = "fence_json"
    ELSE tok.t \in {"fence", "fence_json"}

\* sep in text
HasSep(text, sep) == \E i \in 1..Len(text) : IsSep(text[i], sep)

FirstIndex(text, sep) ==
    IF HasSep(text, sep)
    THEN CHOOSE i \in 1..Len(text) :
            IsSep(text[i], sep) /\ \A j \in 1..(i - 1) : ~IsSep(text[j], sep)
    ELSE 0

\* text.split(sep)[0]
SplitHead(text, sep) ==
    LET i == FirstIndex(text, sep)
    IN  IF i = 0 THEN text ELSE SubSeq(text, 1, i - 1)

\* text.split(sep)[1], for a text that holds sep
SplitSecond(text, sep) ==
    LET i == FirstIndex(text, sep)
    IN  SplitHead(SubSeq(text, i + 1, Len(text)), sep)

\* json.loads(text): a value when the text is one JSON value, else JSONDecodeError
json_loads(text) ==
    IF Len(text) = 1 /\ text[1].t \in {"obj", "nonobj"}
    THEN [ok |-> TRUE, isdict |-> text[1].t = "obj", value |-> text[1].v]
    ELSE [ok |-> FALSE, isdict |-> FALSE, value |-> EmptyObj]

(***************************************************************************)
(* agents/base_agent.py                                                    *)
(***************************************************************************)
\* a _validate_score that hands the score back as it came
validate_score_unclamped(score) == score

\* BaseAgent._validate_score, on tenths of a point (min_score 0, max_score 100)
validate_score(score) == Max2(0, Min2(1000, score))

\* the fallback structure of _query_llm
FallbackResult ==
    [EmptyObj EXCEPT !.keys = {"score", "reasoning", "strengths", "weaknesses",
                               "category_scores"},
                     !.score = 500,
                     !.reasoning = Reasoning("", <<>>, "Unable to parse LLM response")]

\* BaseAgent._query_llm after the query returned `response`: json.loads, then
\* in the except the ```json branch, the ``` branch, the fallback; then the
\* score is validated.  `raised` names the exception that leaves the method.
query_llm(response) ==
    LET direct == json_loads(response)
        fenced == IF HasSep(response, FenceJson)
                  THEN json_loads(SplitHead(SplitSecond(response, FenceJson), Fence))
                  ELSE json_loads(SplitHead(SplitSecond(response, Fence), Fence))
        parsed == IF direct.ok THEN direct
                  ELSE IF HasSep(response, Fence) THEN fenced
                  ELSE [ok |-> TRUE, isdict |-> TRUE, value |-> FallbackResult]
    IN  IF ~parsed.ok THEN [raised |-> "JSONDecodeError", result |-> EmptyObj]
        ELSE IF ~parsed.isdict THEN [raised |-> "AttributeError", result |-> EmptyObj]
        ELSE [ raised |-> "",
               result |-> [parsed.value EXCEPT
                             !.keys = @ \cup {"score"},
                             !.score = validate_score(Get(parsed.value, "score", 500))] ]

(***************************************************************************)
(* parsers/jd_parser.py                                                    *)
(***************************************************************************)
DefaultJD ==
    [EmptyJD EXCEPT !.keys = {"required_skills", "min_experience_years", "role_level"},
                     !.role_level = "mid"]

\* parse_job_description after the query returned `response`: the same three
\* steps, with the minimal structure as the last resort.  A JSON value that
\* is no object is returned as it is.
parse_job_description(response) ==
    LET direct == json_loads(response)
        fenced == IF HasSep(response, FenceJson)
                  THEN json_loads(SplitHead(SplitSecond(response, FenceJson), Fence))
                  ELSE json_loads(SplitHead(SplitSecond(response, Fence), Fence))
        parsed == IF direct.ok THEN direct
                  ELSE IF HasSep(response, Fence) THEN fenced
                  ELSE [ok |-> TRUE, isdict |-> TRUE, value |-> DefaultJD]
    IN  IF ~parsed.ok
        THEN [raised |-> "JSONDecodeError", isdict |-> FALSE, value |-> EmptyJD]
        ELSE [raised |-> "", isdict |-> parsed.isdict,
              value |-> IF parsed.isdict THEN parsed.value ELSE EmptyJD]

(***************************************************************************)
(* agents/skill_agent.py, experience_agent.py, fit_agent.py                *)
(* Each operator is the agent's score() from the facts and the parsed      *)
(* LLM result on; the query itself is a step of the pipeline below.        *)
(***************************************************************************)
ResultKeys == {"score", "reasoning", "strengths", "weaknesses", "category_scores"}

AgentResult(score, reasoning, strengths, weaknesses, category_scores) ==
    [EmptyObj EXCEPT !.keys = ResultKeys, !.score = score,
                     !.reasoning = reasoning, !.strengths = strengths,
                     !.weaknesses = weaknesses,
                     !.category_scores = category_scores]

\* base_score of SkillAgent in 1/Scale points:
\* (skill_score * 0.6) + (education_score * 0.4)
skill_base_score(facts) ==
    (facts.skill_match_percentage * 6 * Scale) \div 100
    + (facts.education_score * 4 * Scale) \div 10

\* an adjustment taken from the LLM without the clamp
clamp_adjustment_unclamped(llm_result) == Get(llm_result, "adjustment", 0)

\* adjustment = max(-10, min(10, llm_result.get("adjustment", 0))), in points
clamp_adjustment(llm_result) ==
    Max2(-10, Min2(10, Get(llm_result, "adjustment", 0)))

\* final_score = max(0, min(100, base_score + adjustment)), in 1/Scale points
final_score(base_score, adjustment) ==
    Max2(0, Min2(100 * Scale, base_score + adjustment * Scale))

\* round(x, 1) of a value in 1/Scale points, in tenths of a point
Round1(x) == RoundHalfEven(x, Scale \div 10)

FirstN(seq, n) == SubSeq(seq, 1, Min2(n, Len(seq)))

\* SkillAgent.score taking strengths and weaknesses from the LLM answer
SkillAgent_score_llm_strengths(facts, llm_result) ==
    LET base_score == skill_base_score(facts)
        adjustment == clamp_adjustment(llm_result)
        final == final_score(base_score, adjustment)
    IN  AgentResult(
          Round1(final),
          Reasoning("Matched skills",
                    <<Len(facts.matched_skills), Len(facts.required_skills)>>,
                    Get(llm_result, "reasoning", Reasoning("", <<>>, "")).llm),
          Get(llm_result, "strengths", <<>>),
          Get(llm_result, "weaknesses", <<>>),
          { <<"skill_match", facts.skill_match_percentage>>,
            <<"education_relevance", facts.education_score>>,
            <<"baseline", Round1(base_score)>>,
            <<"llm_adjustment", adjustment>>,
            <<"final", Round1(final)>> })

\* SkillAgent.score after step 1 (facts = get_factual_baseline(...)) and the
\* query of step 3 (llm_result): steps 1 (base score) and 4
SkillAgent_score(facts, llm_result) ==
    LET base_score == skill_base_score(facts)
        adjustment == clamp_adjustment(llm_result)
        final == final_score(base_score, adjustment)
    IN  AgentResult(
          Round1(final),
          Reasoning("Matched skills",
                    <<Len(facts.matched_skills), Len(facts.required_skills)>>,
                    Get(llm_result, "reasoning", Reasoning("", <<>>, "")).llm),
          << IF facts.matched_skills # <<>>
             THEN Item("Has required", FirstN(facts.matched_skills, 3))
             ELSE Item("No matching technical skills", <<>>),
             IF facts.degrees # <<>>
             THEN Item("Education", <<facts.degrees[1]>>)
             ELSE Item("Education: Not specified", <<>>) >>,
          << IF facts.missing_skills # <<>>
             THEN Item("Missing", FirstN(facts.missing_skills, 3))
             ELSE Item("No critical skill gaps", <<>>) >>,
          { <<"skill_match", facts.skill_match_percentage>>,
            <<"education_relevance", facts.education_score>>,
            <<"baseline", Round1(base_score)>>,
            <<"llm_adjustment", adjustment>>,
            <<"final", Round1(final)>> })

\* ExperienceAgent's year_score without the 0.75 x min_required tier
experience_year_score_no_lower_tier(years, min_required) ==
    IF min_required = 0 THEN Min2(100 * Scale, 50 * Scale + years * Scale)
    ELSE IF years >= 15 * min_required THEN 100 * Scale
    ELSE IF years >= 10 * min_required THEN 90 * Scale
    ELSE Max2(20 * Scale, (7 * years * Scale) \div min_required)

\* ExperienceAgent's year_score with the 90 and 70 tiers exchanged
experience_year_score_swapped_tiers(years, min_required) ==
    IF min_required = 0 THEN Min2(100 * Scale, 50 * Scale + years * Scale)
    ELSE IF years >= 15 * min_required THEN 100 * Scale
    ELSE IF years >= 10 * min_required THEN 70 * Scale
    ELSE IF 2 * years >= 15 * min_required THEN 90 * Scale
    ELSE Max2(20 * Scale, (7 * years * Scale) \div min_required)

\* year_score of ExperienceAgent in 1/Scale points; years in tenths of a year
experience_year_score(years, min_required) ==
    IF min_required = 0 THEN Min2(100 * Scale, 50 * Scale + years * Scale)
    ELSE IF years >= 15 * min_required THEN 100 * Scale
    ELSE IF years >= 10 * min_required THEN 90 * Scale
    ELSE IF 2 * years >= 15 * min_required THEN 70 * Scale
    ELSE Max2(20 * Scale, (7 * years * Scale) \div min_required)

\* base_score of ExperienceAgent: year_score, times 0.6 when the roles are
\* not relevant and years > 0
experience_base_score(facts) ==
    LET year_score == experience_year_score(facts.years_of_experience,
                                            facts.min_required_years)
    IN  IF ~facts.role_relevant /\ facts.years_of_experience > 0
        THEN (year_score * 6) \div 10
        ELSE year_score

\* ExperienceAgent.score after step 1 (facts = get_factual_baseline(...)) and
\* the query of step 3 (llm_result)
ExperienceAgent_score(facts, llm_result) ==
    LET years == facts.years_of_experience
        min_required == facts.min_required_years
        base_score == experience_base_score(facts)
        adjustment == clamp_adjustment(llm_result)
        final == final_score(base_score, adjustment)
    IN  AgentResult(
          Round1(final),
          Reasoning(IF facts.role_relevant THEN "yrs experience. Roles relevant"
                    ELSE "yrs experience. Roles NOT relevant",
                    <<years, min_required>>,
                    Get(llm_result, "reasoning", Reasoning("", <<>>, "")).llm),
          << Item("Has years of experience", <<>>),
             IF facts.relevant_roles # <<>>
             THEN Item("Relevant roles", FirstN(facts.relevant_roles, 2))
             ELSE Item("Experience in different domain", <<>>) >>,
          << IF years < 10 * min_required
             THEN Item("Below year requirement", <<>>) ELSE Item("", <<>>),
             IF ~facts.role_relevant
             THEN Item("No relevant technical experience", <<>>) ELSE Item("", <<>>) >>,
          { <<"years", Round1(experience_year_score(years, min_required))>>,
            <<"baseline", Round1(base_score)>>,
            <<"llm_adjustment", adjustment>>,
            <<"final", Round1(final)>> })

\* FitAgent.score: the parsed LLM result is returned as it is
FitAgent_score(facts, llm_result) == llm_result

(***************************************************************************)
(* utils/scoring.py, config.py                                             *)
(***************************************************************************)
\* WEIGHTS of config.py, in hundredths
WEIGHTS == [technical |-> 40, career |-> 35, fit |-> 25]

\* a combine_scores that cuts the total off after two decimals
combine_scores_truncated(technical, career, fit, weights) ==
    LET total_score == Get(technical, "score", 0) * weights.technical
                       + Get(career, "score", 0) * weights.career
                       + Get(fit, "score", 0) * weights.fit
    IN  [ total |-> total_score \div 10,
          breakdown |-> [technical |-> technical, career |-> career, fit |-> fit],
          weighted_scores |-> [technical |-> 0, career |-> 0, fit |-> 0] ]

\* combine_scores: total in hundredths of a point from scores in tenths
combine_scores(technical, career, fit, weights) ==
    LET weighted_tech == Get(technical, "score", 0) * weights.technical
        weighted_career == Get(career, "score", 0) * weights.career
        weighted_fit == Get(fit, "score", 0) * weights.fit
        total_score == weighted_tech + weighted_career + weighted_fit
    IN  [ total |-> RoundHalfEven(total_score, 10),
          breakdown |-> [technical |-> technical, career |-> career, fit |-> fit],
          weighted_scores |-> [technical |-> RoundHalfEven(weighted_tech, 10),
                               career |-> RoundHalfEven(weighted_career, 10),
                               fit |-> RoundHalfEven(weighted_fit, 10)] ]

(***************************************************************************)
(* services/json_loader.py                                                 *)
(***************************************************************************)
\* a structure check that asks for the personal_info section only
validate_resume_structure_section_only(resume) == resume.has_personal_info

\* _validate_resume_structure
validate_resume_structure(resume) ==
    IF ~resume.has_personal_info THEN FALSE
    ELSE IF ~resume.has_name \/ resume.name = "" THEN FALSE
    ELSE TRUE

\* the body of the for loop of load_resumes for one file: the resume to
\* append, or nothing when json.load raises or the structure is invalid
LoadOne(file) ==
    IF Document(file).parse # "dict" THEN <<>>
    ELSE IF ~validate_resume_structure(Document(file)) THEN <<>>
    ELSE <<file>>

RECURSIVE LoadAll(_)
LoadAll(json_files) ==
    IF json_files = <<>> THEN <<>>
    ELSE LoadOne(Head(json_files)) \o LoadAll(Tail(json_files))

\* a load_resumes that returns the empty list where the source raises
load_resumes_no_raise(exists, json_files, limit) ==
    [raised |-> "", resumes |-> IF exists THEN LoadAll(json_files) ELSE <<>>]

\* load_resumes(directory, limit); limit 0 stands for None (both are falsy)
load_resumes(exists, json_files, limit) ==
    LET files == IF limit # 0 THEN FirstN(json_files, limit) ELSE json_files
        resumes == LoadAll(files)
    IN  IF ~exists THEN [raised |-> "FileNotFoundError", resumes |-> <<>>]
        ELSE IF json_files = <<>> THEN [raised |-> "ValueError", resumes |-> <<>>]
        ELSE IF resumes = <<>> THEN [raised |-> "ValueError", resumes |-> <<>>]
        ELSE [raised |-> "", resumes |-> resumes]

(***************************************************************************)
(* Ranking (main.py) and utils/validators.py                               *)
(***************************************************************************)
\* sorted(..., reverse=True) on a sequence of [key, val]: stable, equal keys
\* keep their order
RECURSIVE SortedReverse(_)
SortedReverse(pairs) ==
    IF pairs = <<>> THEN <<>>
    ELSE LET n == Len(pairs)
             front == SortedReverse(SubSeq(pairs, 1, n - 1))
             x == pairs[n]
             c == Cardinality({i \in 1..Len(front) : front[i].key >= x.key})
         IN  SubSeq(front, 1, c) \o <<x>> \o SubSeq(front, c + 1, Len(front))

\* a ranking that returns the results in the order they were appended
rank_results_unsorted(results) == results

\* ranked_results = sorted(results, key=lambda x: x["total_score"], reverse=True)
rank_results(results) ==
    LET pairs == [i \in 1..Len(results) |->
                     [key |-> results[i].total_score, val |-> results[i]]]
        sorted == SortedReverse(pairs)
    IN  [i \in 1..Len(sorted) |-> sorted[i].val]

\* sorted(scores, reverse=True)
sorted_scores(scores) ==
    LET sorted == SortedReverse([i \in 1..Len(scores) |->
                                    [key |-> scores[i], val |-> scores[i]]])
    IN  [i \in 1..Len(sorted) |-> sorted[i].val]

\* validate_final_results: the set of error kinds it reports
validate_final_results(results) ==
    LET scores == [i \in 1..Len(results) |-> results[i].total_score]
    IN  IF results = <<>> THEN {"Empty results list"}
        ELSE (IF \E i \in 1..Len(results) :
                    results[i].total_score < 0 \/ results[i].total_score > 100 * 100
              THEN {"Score out of range"} ELSE {})
             \cup
             (IF scores # sorted_scores(scores)
              THEN {"Not properly sorted by score"} ELSE {})

\* check_score_consistency: abs(calculated_total - total) < 0.1, with the
\* weighted sum in thousandths of a point and total in hundredths
check_score_consistency(breakdown, total, weights) ==
    LET tech_score == Get(breakdown.technical, "score", 0)
        career_score == Get(breakdown.career, "score", 0)
        fit_score == Get(breakdown.fit, "score", 0)
        calculated_total == tech_score * weights.technical
                            + career_score * weights.career
                            + fit_score * weights.fit
        difference == calculated_total - total * 10
    IN  Max2(difference, -difference) < 100

(***************************************************************************)
(* services/ollama_client.py                                               *)
(***************************************************************************)
\* a query that sends the request again after a failed first attempt
ollama_query_with_retry(calls) == calls + 2

\* OllamaClient.query: one POST per call, no loop; the number of requests
\* sent so far after one more call
ollama_query(calls) == calls + 1

(***************************************************************************)
(* The screening run: main.py screen_candidates and score_candidate        *)
(***************************************************************************)
VARIABLES
    pc,               \* phase of screen_candidates
    dir_exists,       \* resume_dir.exists()
    json_files,       \* the files of resume_dir.glob("*.json"), in glob order
    jd_requirements,  \* [isdict, value]: what parse_job_description returned
    candidates,       \* what load_resumes returned (the resumes, by file)
    idx,              \* position of the for loop over candidates
    agent,            \* per agent task: [st, facts, result]
    results,          \* the list the loop appends to
    ranked,           \* the returned ranking
    llm_calls,        \* OllamaClient.query calls made so far
    error,            \* [type, site] of the exception that ended the run
    call              \* a direct call of an agent: [fn, facts, llm, out]

vars == <<pc, dir_exists, json_files, jd_requirements, candidates, idx, agent,
          results, ranked, llm_calls, error, call>>

Agents == {"technical", "career", "fit"}

NoError == [type |-> "", site |-> ""]
NoFacts == get_factual_baseline(EmptyDoc, EmptyJD)
IdleAgent == [st |-> "idle", facts |-> NoFacts, result |-> EmptyObj]

Init ==
    /\ pc = "init"
    /\ dir_exists \in BOOLEAN
    /\ json_files \in Listings
    /\ (~dir_exists => json_files = <<>>)
    /\ jd_requirements = [isdict |-> TRUE, value |-> EmptyJD]
    /\ candidates = <<>>
    /\ idx = 0
    /\ agent = [a \in Agents |-> IdleAgent]
    /\ results = <<>>
    /\ ranked = <<>>
    /\ llm_calls = 0
    /\ error = NoError
    /\ call = [fn |-> "", facts |-> NoFacts, llm |-> EmptyObj, out |-> EmptyObj]

\* an exception leaves screen_candidates: nothing is returned, the agent
\* tasks are gone; results keeps what the loop had appended until then
Raise(type, site) ==
    /\ pc' = "failed"
    /\ error' = [type |-> type, site |-> site]
    /\ agent' = [a \in Agents |-> IdleAgent]

\* parse_job_description up to its await: the prompt is sent
ParseJDCall ==
    /\ pc = "init"
    /\ pc' = "jd_wait"
    /\ llm_calls' = ollama_query(llm_calls)
    /\ UNCHANGED <<dir_exists, json_files, jd_requirements, candidates, idx,
                   agent, results, ranked, error, call>>

\* OllamaClient.query raises (timeout, connection error, status other than
\* 200): parse_job_description has no try around the await
ParseJDQueryRaises ==
    /\ pc = "jd_wait"
    /\ Raise("OllamaError", "parse_job_description")
    /\ UNCHANGED <<dir_exists, json_files, jd_requirements, candidates, idx,
                   results, ranked, llm_calls, call>>

\* the response arrives and parse_job_description runs to its end
ParseJDReturn(response) ==
    /\ pc = "jd_wait"
    /\ LET r == parse_job_description(response)
       IN  IF r.raised # ""
           THEN /\ Raise(r.raised, "parse_job_description")
                /\ UNCHANGED jd_requirements
           ELSE /\ pc' = "jd_parsed"
                /\ jd_requirements' = [isdict |-> r.isdict, value |-> r.value]
                /\ UNCHANGED <<agent, error>>
    /\ UNCHANGED <<dir_exists, json_files, candidates, idx, results, ranked,
                   llm_calls, call>>

\* candidates = load_resumes(resume_dir); _id is the position of the file
LoadResumes ==
    /\ pc = "jd_parsed"
    /\ LET r == load_resumes(dir_exists, json_files, 0)
       IN  IF r.raised # ""
           THEN /\ Raise(r.raised, "load_resumes")
                /\ UNCHANGED candidates
           ELSE /\ pc' = "loaded"
                /\ candidates' = r.resumes
                /\ UNCHANGED <<agent, error>>
    /\ UNCHANGED <<dir_exists, json_files, jd_requirements, idx, results, ranked,
                   llm_calls, call>>

\* a wait that is over as soon as one task is in the state
AllAgents_first_completed(st) == \E a \in Agents : agent[a].st = st

AllAgents(st) == \A a \in Agents : agent[a].st = st

\* a loop that starts the next candidate without awaiting score_candidate
ScoreCandidate_no_await ==
    /\ pc \in {"loaded", "scoring"}
    /\ idx < Len(candidates)
    /\ pc' = "scoring"
    /\ idx' = idx + 1
    /\ agent' = [a \in Agents |-> [IdleAgent EXCEPT !.st = "created"]]
    /\ UNCHANGED <<dir_exists, json_files, jd_requirements, candidates, results,
                   ranked, llm_calls, error, call>>

\* the next iteration of the for loop: score_candidate builds the three
\* agents and hands their coroutines to asyncio.gather
ScoreCandidate ==
    /\ pc \in {"loaded", "scoring"}
    /\ AllAgents("idle")
    /\ idx < Len(candidates)
    /\ pc' = "scoring"
    /\ idx' = idx + 1
    /\ agent' = [a \in Agents |-> [IdleAgent EXCEPT !.st = "created"]]
    /\ UNCHANGED <<dir_exists, json_files, jd_requirements, candidates, results,
                   ranked, llm_calls, error, call>>

\* the order in which gather's tasks get their first step
StartsBefore(a) ==
    IF a = "technical" THEN {}
    ELSE IF a = "career" THEN {"technical"}
    ELSE {"technical", "career"}

\* the facts an agent computes before its query: SkillAgent and
\* ExperienceAgent call get_factual_baseline, FitAgent does not
AgentFacts(a, candidate, jd) ==
    IF a = "fit" THEN NoFacts ELSE get_factual_baseline(candidate, jd)

\* the first step of an agent task: score() up to the await of the query.
\* The facts and the prompt are built from jd_requirements.get(...), which
\* raises when the JD parser returned a JSON value that is no object.
AgentStart(a) ==
    /\ pc = "scoring"
    /\ agent[a].st = "created"
    /\ \A b \in StartsBefore(a) : agent[b].st = "waiting"
    /\ IF ~jd_requirements.isdict
       THEN /\ Raise("AttributeError", "score")
            /\ UNCHANGED llm_calls
       ELSE /\ agent' = [agent EXCEPT ![a].st = "waiting",
                                     ![a].facts = AgentFacts(a, Document(candidates[idx]),
                                                             jd_requirements.value)]
            /\ llm_calls' = ollama_query(llm_calls)
            /\ UNCHANGED <<pc, error>>
    /\ UNCHANGED <<dir_exists, json_files, jd_requirements, candidates, idx,
                   results, ranked, call>>

\* score() of agent a from the parsed LLM result on
AgentScore(a, facts, llm_result) ==
    IF a = "technical" THEN SkillAgent_score(facts, llm_result)
    ELSE IF a = "career" THEN ExperienceAgent_score(facts, llm_result)
    ELSE FitAgent_score(facts, llm_result)

\* the query of agent a raises: _query_llm and score() have no try around
\* it, gather hands the exception to score_candidate and on to the caller
AgentQueryRaises(a) ==
    /\ pc = "scoring"
    /\ agent[a].st = "waiting"
    /\ \A b \in Agents : agent[b].st # "created"
    /\ Raise("OllamaError", "_query_llm")
    /\ UNCHANGED <<dir_exists, json_files, jd_requirements, candidates, idx,
                   results, ranked, llm_calls, call>>

\* the response of agent a arrives: _query_llm parses it and score() ends
AgentReturn(a) ==
    /\ pc = "scoring"
    /\ agent[a].st = "waiting"
    /\ \A b \in Agents : agent[b].st # "created"
    /\ \E response \in AgentResponses(candidates[idx]) :
       LET r == query_llm(response)
       IN  IF r.raised # ""
           THEN Raise(r.raised, "_query_llm")
           ELSE /\ agent' = [agent EXCEPT ![a] =
                       [st |-> "done", facts |-> NoFacts,
                        result |-> AgentScore(a, agent[a].facts, r.result)]]
                /\ UNCHANGED <<pc, error>>
    /\ UNCHANGED <<dir_exists, json_files, jd_requirements, candidates, idx,
                   results, ranked, llm_calls, call>>

\* gather returned the three results: combine_scores, then the result dict
\* (candidate["personal_info"]["email"] raises KeyError without the key),
\* then results.append
CombineCandidate ==
    /\ pc = "scoring"
    /\ AllAgents("done")
    /\ LET candidate == Document(candidates[idx])
           final == combine_scores(agent["technical"].result, agent["career"].result,
                                   agent["fit"].result, WEIGHTS)
       IN  IF ~candidate.has_email
           THEN /\ Raise("KeyError", "score_candidate")
                /\ UNCHANGED results
           ELSE /\ results' = Append(results,
                       [ name |-> candidate.name,
                         total_score |-> final.total,
                         breakdown |-> final.breakdown ])
                /\ agent' = [a \in Agents |-> IdleAgent]
                /\ UNCHANGED <<pc, error>>
    /\ UNCHANGED <<dir_exists, json_files, jd_requirements, candidates, idx,
                   ranked, llm_calls, call>>

\* the loop is over: ranked_results = sorted(...)
RankResults ==
    /\ pc \in {"loaded", "scoring"}
    /\ AllAgents("idle")
    /\ idx = Len(candidates)
    /\ pc' = "ranked"
    /\ ranked' = rank_results(results)
    /\ UNCHANGED <<dir_exists, json_files, jd_requirements, candidates, idx,
                   agent, results, llm_calls, error, call>>

\* return ranked_results, screening_time
Return ==
    /\ pc = "ranked"
    /\ pc' = "done"
    /\ UNCHANGED <<dir_exists, json_files, jd_requirements, candidates, idx,
                   agent, results, ranked, llm_calls, error, call>>

Next ==
    \/ ParseJDCall
    \/ ParseJDQueryRaises
    \/ \E response \in JDResponses : ParseJDReturn(response)
    \/ LoadResumes
    \/ ScoreCandidate
    \/ \E a \in Agents : AgentStart(a)
    \/ \E a \in Agents : AgentQueryRaises(a)
    \/ \E a \in Agents : AgentReturn(a)
    \/ CombineCandidate
    \/ RankResults
    \/ Return

Spec == Init /\ [][Next]_vars

(***************************************************************************)
(* Properties of the screening run                                         *)
(***************************************************************************)
\* the run ended by an exception that left screen_candidates
Failed == pc = "failed"
\* the run returned its ranking
Completed == pc = "done"

\* C1: when an OllamaClient.query call of an agent raises (timeout,
\* connection error), the agent still returns a result: the exception never
\* leaves _query_llm to reach score_candidate and screen_candidates, so no
\* run is ended by it.
C1_AgentsAbsorbLLMFailure ==
    ~(Failed /\ error.site = "_query_llm" /\ error.type = "OllamaError")

\* C2: for a response text that is no JSON object (prose, a fenced block
\* whose content is not JSON), _query_llm returns the fallback and does not
\* raise: no run is ended by a parse error that leaves _query_llm.
C2_UnparseableResponseFallsBack ==
    ~(Failed /\ error.site = "_query_llm" /\ error.type = "JSONDecodeError")

\* scores are tenths of a point, totals hundredths of a point
ScoreInRange(result) == result.score >= 0 /\ result.score <= 100 * 10
ResultInRange(r) ==
    /\ r.total_score >= 0 /\ r.total_score <= 100 * 100
    /\ \A a \in Agents : ScoreInRange(r.breakdown[a])

\* C3: every agent result has its score in [0,100] and every candidate's
\* total_score is in [0,100], in the list the loop builds and in the ranking
\* a completed run returns, whatever score or adjustment the LLM answered.
C3_ScoresInRange ==
    /\ \A a \in Agents : agent[a].st = "done" => ScoreInRange(agent[a].result)
    /\ \A i \in 1..Len(results) : ResultInRange(results[i])
    /\ \A i \in 1..Len(ranked) : ResultInRange(ranked[i])

\* a completed run ranks a candidate whose LLM answers were all above 100
\* and one whose answers were all below 0
C3_Witness ==
    /\ Completed
    /\ \E i, j \in 1..Len(ranked) :
         /\ ranked[i].breakdown.fit.score = 100 * 10
         /\ ranked[i].breakdown.technical.category_scores
               \cap {<<"llm_adjustment", 10>>} # {}
         /\ ranked[j].breakdown.fit.score = 0
         /\ ranked[j].total_score < ranked[i].total_score

\* C4: a failure while scoring one loaded candidate (a resume without
\* personal_info.email) does not abort the run: once a candidate's result
\* has been produced, no later candidate's scoring failure ends the run.
C4_CandidateFailureDoesNotAbort ==
    ~(Failed /\ error.site = "score_candidate" /\ Len(results) > 0)

NonIncreasing(list) ==
    \A i \in 1..(Len(list) - 1) : list[i].total_score >= list[i + 1].total_score

\* the results as a bag
BagOf(list) == [r \in {list[i] : i \in 1..Len(list)} |->
                   Cardinality({i \in 1..Len(list) : list[i] = r})]

\* C5: the list a completed run returns is non-increasing in total_score and
\* holds the results the loop produced; validate_final_results reports no
\* ordering error for exactly the non-increasing lists.
C5_RankingNonIncreasing ==
    /\ Completed => NonIncreasing(ranked) /\ BagOf(ranked) = BagOf(results)
    /\ \A list \in {results, ranked} :
         list # <<>> =>
           ("Not properly sorted by score" \notin validate_final_results(list)
              <=> NonIncreasing(list))

\* a completed run whose sort moved a later, better candidate to the front
C5_Witness ==
    /\ Completed
    /\ Len(ranked) = 2
    /\ ranked # results
    /\ ranked[1].total_score > ranked[2].total_score
    /\ "Not properly sorted by score" \in validate_final_results(results)

\* C6: parse_job_description never fails the run: when the query raises or
\* the response holds no parseable JSON it returns the default requirements.
C6_JDParseNeverFails ==
    ~(Failed /\ error.site = "parse_job_description")

\* what the loader's contract calls a valid document
ValidDocument(file) ==
    /\ Document(file).parse = "dict"
    /\ Document(file).has_personal_info
    /\ Document(file).has_name
    /\ Document(file).name # ""

NoValidCandidate == ~dir_exists \/ \A i \in 1..Len(json_files) : ~ValidDocument(json_files[i])

\* load_resumes has been called and has returned or raised
LoadAttempted == pc \notin {"init", "jd_wait", "jd_parsed"}
                 /\ ~(Failed /\ error.site = "parse_job_description")

\* C8: a run over a directory with no valid candidate (missing, no JSON
\* file, every file invalid) never gets past the loading: once load_resumes
\* has been called the run has failed there, and no result is ever produced.
C8_EmptyBatchFails ==
    NoValidCandidate =>
       /\ LoadAttempted =>
             Failed /\ error.site = "load_resumes"
                    /\ error.type \in {"FileNotFoundError", "ValueError"}
       /\ candidates = <<>> /\ results = <<>> /\ ranked = <<>>
       /\ \A a \in Agents : agent[a].st = "idle"

\* the directory holds files, all of them invalid, and the run failed in
\* load_resumes
C8_Witness ==
    /\ Failed /\ error.site = "load_resumes" /\ error.type = "ValueError"
    /\ Len(json_files) = MaxFiles
    /\ NoValidCandidate

\* C9: load_resumes returns exactly the valid documents of the directory,
\* in the order of the listing, and raises only when there is none.
C9_LoadSkipsInvalid ==
    LoadAttempted =>
       IF \E i \in 1..Len(json_files) : ValidDocument(json_files[i])
       THEN /\ ~(Failed /\ error.site = "load_resumes")
            /\ candidates = SelectSeq(json_files, ValidDocument)
       ELSE Failed /\ error.site = "load_resumes"

\* a listing with a bad document in front of a valid one: the valid one is
\* loaded alone
C9_Witness ==
    /\ pc = "loaded"
    /\ Len(json_files) = 2
    /\ ~ValidDocument(json_files[1])
    /\ candidates = <<json_files[2]>>

\* C10: a completed run over N loaded candidates has issued exactly 1 + 3N
\* OllamaClient.query calls, and no run issues more.
C10_CallCount ==
    /\ Completed => llm_calls = 1 + 3 * Len(candidates)
                    /\ Len(ranked) = Len(candidates)
    /\ llm_calls <= 1 + 3 * Len(candidates)
    /\ (idx > 0 /\ AllAgents("idle") /\ ~Failed) => llm_calls = 1 + 3 * idx

\* a completed run over two candidates: seven calls
C10_Witness ==
    /\ Completed
    /\ Len(candidates) = 2
    /\ llm_calls = 7

(***************************************************************************)
(* Direct calls of SkillAgent.score and ExperienceAgent.score              *)
(* The facts come from get_factual_baseline on candidates and job          *)
(* requirements put together from the parts below; the LLM answer holds    *)
(* an adjustment inside or outside [-10, 10], or none.                     *)
(***************************************************************************)
\* largest adjustment of an LLM answer, in points, either sign
MaxAdjustment == 11
\* largest min_experience_years of a job description
MaxMinYears == 3

CallCandidates ==
    { [EmptyDoc EXCEPT !.name = "Dee", !.has_email = TRUE,
                       !.technical = technical, !.education = education,
                       !.experience = experience] :
        technical \in { <<>>, <<Str_Python>>, <<Str_Python, Str_SQL_padded>> },
        education \in { <<>>, DocAnn.education, DocBob.education },
        experience \in { <<>>, DocAnn.experience, DocBob.experience,
                         DocBob.experience \o DocBob.experience,
                         << [position |-> Str_Sales_Manager,
                             start_date |-> DateYM(2021, 1),
                             end_date |-> DateYM(2022, 7)] >>,
                         << [position |-> Str_Data_Engineer,
                             start_date |-> DateYM(2023, 1),
                             end_date |-> DateYM(2022, 1)] >>
                         \o DocBob.experience \o DocAnn.experience } }

CallJDs ==
    { [ObjJD EXCEPT !.required_skills = required_skills,
                    !.min_experience_years = min_experience_years] :
        required_skills \in { <<>>, <<Str_Python, Str_Java>>,
                              <<Str_Python, Str_Java, Str_sql_lc>> },
        min_experience_years \in 0..MaxMinYears }

CallFacts == { get_factual_baseline(c, jd) : c \in CallCandidates, jd \in CallJDs }

CallAnswers ==
    { [ObjHigh EXCEPT !.adjustment = adjustment] :
        adjustment \in (-MaxAdjustment)..MaxAdjustment }
    \cup { [ObjHigh EXCEPT !.keys = @ \ {"adjustment"}, !.adjustment = 0] }
    \cup { [ObjLow EXCEPT !.strengths = <<Item("llm other strength", <<>>)>>,
                          !.weaknesses = <<>>],
           [ObjLow EXCEPT !.keys = @ \ {"strengths", "weaknesses"},
                          !.strengths = <<>>, !.weaknesses = <<>>] }

InitCalls ==
    /\ pc = "call"
    /\ dir_exists = FALSE
    /\ json_files = <<>>
    /\ jd_requirements = [isdict |-> TRUE, value |-> EmptyJD]
    /\ candidates = <<>>
    /\ idx = 0
    /\ agent = [a \in Agents |-> IdleAgent]
    /\ results = <<>>
    /\ ranked = <<>>
    /\ llm_calls = 0
    /\ error = NoError
    /\ \E facts \in CallFacts, llm \in CallAnswers :
          call = [fn |-> "", facts |-> facts, llm |-> llm, out |-> EmptyObj]

\* SkillAgent.score with these facts and this parsed LLM answer
CallSkillAgent ==
    /\ pc = "call"
    /\ call.fn = ""
    /\ call' = [call EXCEPT !.fn = "SkillAgent",
                            !.out = SkillAgent_score(call.facts, call.llm)]
    /\ UNCHANGED <<pc, dir_exists, json_files, jd_requirements, candidates, idx,
                   agent, results, ranked, llm_calls, error>>

\* ExperienceAgent.score with these facts and this parsed LLM answer
CallExperienceAgent ==
    /\ pc = "call"
    /\ call.fn = ""
    /\ call' = [call EXCEPT !.fn = "ExperienceAgent",
                            !.out = ExperienceAgent_score(call.facts, call.llm)]
    /\ UNCHANGED <<pc, dir_exists, json_files, jd_requirements, candidates, idx,
                   agent, results, ranked, llm_calls, error>>

NextCalls == CallSkillAgent \/ CallExperienceAgent

SpecCalls == InitCalls /\ [][NextCalls]_vars

(***************************************************************************)
(* Properties of the direct calls                                          *)
(***************************************************************************)
Abs(x) == IF x >= 0 THEN x ELSE -x

\* the deterministic score of the called agent, in 1/Scale points; for
\* SkillAgent 0.6 x skill_match_percentage + 0.4 x education_score
Baseline ==
    IF call.fn = "SkillAgent"
    THEN (call.facts.skill_match_percentage * 6 * Scale) \div 100
         + (call.facts.education_score * 4 * Scale) \div 10
    ELSE experience_base_score(call.facts)

\* clamp(baseline + clamp(adjustment, -10, +10), 0, 100) rounded to one
\* decimal, in tenths of a point; a missing adjustment counts as 0
ClampedScore ==
    LET adjustment == IF "adjustment" \in call.llm.keys THEN call.llm.adjustment ELSE 0
    IN  Round1(Clamp(Baseline + Clamp(adjustment, -10, 10) * Scale, 0, 100 * Scale))

\* distance of the returned score from the unrounded baseline, 1/Scale points
DistanceFromBaseline == Abs(call.out.score * (Scale \div 10) - Baseline)

\* C7 as stated: the returned score is the clamped, rounded sum and never
\* differs from the baseline by more than 10.
C7_AsStated ==
    call.fn # "" =>
       /\ call.out.score = ClampedScore
       /\ DistanceFromBaseline <= 10 * Scale

\* C7: the score SkillAgent and ExperienceAgent return equals
\* clamp(baseline + clamp(adjustment, -10, +10), 0, 100) rounded to one
\* decimal, a missing adjustment counting as 0; it differs from the baseline
\* by at most 10.05 (the 10 points of the adjustment and the rounding to one
\* decimal), and from the baseline rounded to one decimal by at most 10.
C7_ClampedAdjustment ==
    call.fn # "" =>
       /\ call.out.score = ClampedScore
       /\ DistanceFromBaseline <= 10 * Scale + Scale \div 20
       /\ Abs(call.out.score - Round1(Baseline)) <= 10 * 10

\* SkillAgent was called with an adjustment above 10 and returned a score
\* more than 10 above its baseline
C7_Witness ==
    /\ call.fn = "SkillAgent"
    /\ "adjustment" \in call.llm.keys /\ call.llm.adjustment > 10
    /\ call.out.score * (Scale \div 10) - Baseline > 10 * Scale

(***************************************************************************)
(* Order of the phases of the screening run                                *)
(***************************************************************************)
\* Init, JDParsed, CandidatesLoaded, Scoring, Ranked, Done; a run that an
\* exception ended has left the sequence
PhaseRank(phase) ==
    CASE phase \in {"init", "jd_wait"} -> 0
      [] phase = "jd_parsed" -> 1
      [] phase = "loaded" -> 2
      [] phase = "scoring" -> 3
      [] phase = "ranked" -> 4
      [] phase = "done" -> 5
      [] phase = "failed" -> 6

\* some agent task of the current candidate exists
AgentsRunning == \E a \in Agents : agent[a].st # "idle"

PhaseInvariant ==
    /\ PhaseRank(pc) < 2 => candidates = <<>> /\ idx = 0
    /\ PhaseRank(pc) < 3 => results = <<>> /\ idx = 0 /\ ~AgentsRunning
    /\ PhaseRank(pc) = 3 =>
          /\ idx \in 1..Len(candidates)
          /\ Len(results) = IF AgentsRunning THEN idx - 1 ELSE idx
    /\ PhaseRank(pc) \in {4, 5} =>
          /\ idx = Len(candidates)
          /\ Len(results) = Len(candidates)
          /\ Len(ranked) = Len(candidates)
          /\ ~AgentsRunning
          /\ jd_requirements.isdict
    /\ PhaseRank(pc) < 4 => ranked = <<>>

PhaseStep ==
    /\ PhaseRank(pc') >= PhaseRank(pc)
    /\ PhaseRank(pc') <= PhaseRank(pc) + 1 \/ pc' = "failed"
    /\ idx' \in {idx, idx + 1}
    /\ idx' = idx + 1 => pc' = "scoring" /\ Len(results) = idx
    /\ (pc = "jd_parsed" /\ pc' = "loaded") => jd_requirements' = jd_requirements

\* C11: screen_candidates goes through Init, JDParsed, CandidatesLoaded,
\* Scoring(1..N), Ranked, Done in this order and never back: resumes are
\* loaded after the JD is parsed, the agents of candidate i+1 start only
\* when the result of candidate i is in the list, and the ranking is made
\* only when all N candidates are scored.
C11_PhaseOrder == [](PhaseInvariant) /\ [][PhaseStep]_vars

\* the first agent of the second candidate waits for its answer while the
\* result of the first candidate is in the list
C11_Witness ==
    /\ pc = "scoring"
    /\ idx = 2
    /\ Len(results) = 1
    /\ agent["technical"].st = "waiting"
    /\ agent["fit"].st = "created"

(***************************************************************************)
(* Concurrent agents of one candidate                                      *)
(***************************************************************************)
\* the parsed answers _query_llm can hand to score(), by candidate file
ParsedAnswers ==
    [ file \in DocNames |->
        { query_llm(response).result :
            response \in {r \in AgentResponses(file) : query_llm(r).raised = ""} } ]

\* the requirements parse_job_description can return
ParsedJDs ==
    { parse_job_description(response).value :
        response \in {r \in JDResponses : parse_job_description(r).raised = ""} }

\* what the agent class behind a breakdown key returns, by candidate file
\* and job requirements: technical is SkillAgent, career is ExperienceAgent,
\* fit is FitAgent
ResultsOfAgent ==
    [ a \in Agents, file \in DocNames, jd \in ParsedJDs |->
        LET facts == get_factual_baseline(Document(file), jd)
        IN  CASE a = "technical" ->
                   { SkillAgent_score(facts, llm) : llm \in ParsedAnswers[file] }
              [] a = "career" ->
                   { ExperienceAgent_score(facts, llm) : llm \in ParsedAnswers[file] }
              [] a = "fit" -> ParsedAnswers[file] ]

\* total_score as the weighted sum of the breakdown, in hundredths
TotalOf(breakdown) ==
    RoundHalfEven(breakdown.technical.score * 40 + breakdown.career.score * 35
                  + breakdown.fit.score * 25, 10)

\* the text a score() method formats into its reasoning tells the agent
\* classes apart; FitAgent hands on the reasoning of _query_llm
MadeBy(a, result) ==
    CASE a = "technical" -> result.reasoning.prefix = "Matched skills"
      [] a = "career" -> result.reasoning.prefix \in
                            { "yrs experience. Roles relevant",
                              "yrs experience. Roles NOT relevant" }
      [] a = "fit" -> result.reasoning.prefix = ""

\* C12: the three agents of a candidate run concurrently and complete in any
\* order; the result is combined only when all three have returned, and
\* whatever the order the breakdown holds the SkillAgent result under
\* technical, the ExperienceAgent result under career and the FitAgent
\* result under fit, each the one its agent computes for this candidate,
\* and the total is the one these three results give.
C12_ConcurrentAgentsMapping ==
    /\ \A i \in 1..Len(results) :
          /\ \A a \in Agents : MadeBy(a, results[i].breakdown[a])
          /\ \A a \in {"technical", "career"} :
                results[i].breakdown[a].keys = ResultKeys
          /\ results[i].total_score = TotalOf(results[i].breakdown)
          /\ results[i].name = Document(candidates[i]).name
    /\ Len(results) = idx => ~AgentsRunning
    /\ (pc = "scoring" /\ ~AgentsRunning) =>
          \A a \in Agents :
             results[idx].breakdown[a]
                \in ResultsOfAgent[a, candidates[idx], jd_requirements.value]

\* FitAgent, started last, has returned while SkillAgent and ExperienceAgent
\* still wait for their answers
C12_Witness ==
    /\ pc = "scoring"
    /\ agent["fit"].st = "done"
    /\ agent["technical"].st = "waiting"
    /\ agent["career"].st = "waiting"
    /\ agent["fit"].result.score = 100 * 10

(***************************************************************************)
(* Direct calls of combine_scores and check_score_consistency              *)
(***************************************************************************)
\* weights are multiples of WeightStep hundredths
WeightStep == 5
\* largest distance of the sum of a weight set from 1.00, in hundredths
WeightSlack == 1

\* agent results as combine_scores reads them: a score in tenths, or none
CombineResults ==
    { [EmptyObj EXCEPT !.keys = {"score"}, !.score = score] :
         score \in {0, 5, 333, 667, 1000} }
    \cup { EmptyObj }

\* weight sets summing to 1.00 give or take WeightSlack hundredths
CombineWeights ==
    { w \in [ technical : {k * WeightStep : k \in 0..(100 \div WeightStep)},
              career : {k * WeightStep : k \in 0..(100 \div WeightStep)},
              fit : 0..100 ] :
        /\ w.technical + w.career + w.fit >= 100 - WeightSlack
        /\ w.technical + w.career + w.fit <= 100 + WeightSlack }

NoCombined == [total |-> 0, breakdown |-> <<>>, weighted_scores |-> <<>>]

InitCombine ==
    /\ pc = "call"
    /\ dir_exists = FALSE
    /\ json_files = <<>>
    /\ jd_requirements = [isdict |-> TRUE, value |-> EmptyJD]
    /\ candidates = <<>>
    /\ idx = 0
    /\ agent = [a \in Agents |-> IdleAgent]
    /\ results = <<>>
    /\ ranked = <<>>
    /\ llm_calls = 0
    /\ error = NoError
    /\ \E technical \in CombineResults, career \in CombineResults,
          fit \in CombineResults, weights \in CombineWeights :
          call = [ fn |-> "", technical |-> technical, career |-> career,
                   fit |-> fit, weights |-> weights, out |-> NoCombined,
                   consistent |-> FALSE ]

\* combine_scores(technical, career, fit, weights)
CallCombineScores ==
    /\ pc = "call"
    /\ call.fn = ""
    /\ call' = [call EXCEPT !.fn = "combine_scores",
                            !.out = combine_scores(call.technical, call.career,
                                                   call.fit, call.weights)]
    /\ UNCHANGED <<pc, dir_exists, json_files, jd_requirements, candidates, idx,
                   agent, results, ranked, llm_calls, error>>

\* check_score_consistency on the output of combine_scores
CallCheckScoreConsistency ==
    /\ pc = "call"
    /\ call.fn = "combine_scores"
    /\ call' = [call EXCEPT !.fn = "check_score_consistency",
                            !.consistent = check_score_consistency(
                                call.out.breakdown, call.out.total, call.weights)]
    /\ UNCHANGED <<pc, dir_exists, json_files, jd_requirements, candidates, idx,
                   agent, results, ranked, llm_calls, error>>

NextCombine == CallCombineScores \/ CallCheckScoreConsistency

SpecCombine == InitCombine /\ [][NextCombine]_vars

\* technical.score x w_technical + career.score x w_career + fit.score x
\* w_fit of the call, in thousandths of a point; a result without score
\* counts as 0
WeightedSum ==
    (IF "score" \in call.technical.keys THEN call.technical.score ELSE 0)
        * call.weights.technical
    + (IF "score" \in call.career.keys THEN call.career.score ELSE 0)
        * call.weights.career
    + (IF "score" \in call.fit.keys THEN call.fit.score ELSE 0)
        * call.weights.fit

\* C13: the total of every combine_scores output is the weighted sum of the
\* three scores rounded to two decimals, for every weight set summing to
\* 1.0 (+-0.01), the breakdown holds the three results as they came, and
\* check_score_consistency(breakdown, total, weights) is true for it.
C13_WeightConsistency ==
    /\ call.fn # "" =>
          /\ call.out.total = RoundHalfEven(WeightedSum, 10)
          /\ call.out.breakdown = [technical |-> call.technical,
                                   career |-> call.career, fit |-> call.fit]
    /\ call.fn = "check_score_consistency" => call.consistent

\* a weight set summing to 1.01 and a weighted sum that is rounded up to
\* the total, found consistent
C13_Witness ==
    /\ call.fn = "check_score_consistency"
    /\ call.consistent
    /\ call.weights.technical + call.weights.career + call.weights.fit = 101
    /\ call.out.total * 10 > WeightedSum
    /\ call.fit.keys = {}

(***************************************************************************)
(* backend/app/services/resume_analyzer.py: the category weights           *)
(* A weight is kept in hundredths (15 = 0.15); a weight dict is a function *)
(* from category names to weights.                                         *)
(***************************************************************************)
\* largest number of update_weights calls in a run
MaxUpdates == 2
\* largest number of entries of the dict handed to update_weights
MaxNewWeights == 2

\* self.categories
categories ==
    { "career_stability", "career_progression", "skills_competency",
      "resume_quality", "attitude_aptitude", "achievements", "cultural_fit",
      "risk_indicators" }

\* self.weights as set by __init__
InitialWeights ==
    [ c \in categories |->
        CASE c = "career_stability" -> 15
          [] c = "career_progression" -> 15
          [] c = "skills_competency" -> 20
          [] c = "resume_quality" -> 10
          [] c = "attitude_aptitude" -> 15
          [] c = "achievements" -> 10
          [] c = "cultural_fit" -> 10
          [] c = "risk_indicators" -> 5 ]

\* sum(weights.values())
RECURSIVE SumValues(_)
SumValues(weights) ==
    IF DOMAIN weights = {} THEN 0
    ELSE LET c == CHOOSE c \in DOMAIN weights : TRUE
         IN  weights[c] + SumValues([d \in DOMAIN weights \ {c} |-> weights[d]])

\* dict.update
DictUpdate(old, new) ==
    [ c \in DOMAIN old \cup DOMAIN new |-> IF c \in DOMAIN new THEN new[c] ELSE old[c] ]

\* update_weights(new_weights) on self.weights: the exception raised, if
\* any, and self.weights afterwards
update_weights(weights, new_weights) ==
    LET total == SumValues(new_weights)
    IN  IF Max2(total - 100, 100 - total) > 1
        THEN [raised |-> "ValueError: Weights must sum to 1.0", weights |-> weights]
        ELSE IF \E category \in DOMAIN new_weights : category \notin categories
        THEN [raised |-> "ValueError: Unknown category", weights |-> weights]
        ELSE [raised |-> "", weights |-> DictUpdate(weights, new_weights)]

\* the dicts handed to update_weights: some known categories and an unknown
\* one, weights around the tolerance of the sum
NewWeightKeys == {"career_stability", "skills_competency", "risk_indicators",
                  "seniority"}
NewWeightValues == {-50, 0, 49, 50, 52, 100, 150}
NewWeights ==
    UNION { [keys -> NewWeightValues] :
              keys \in {k \in SUBSET NewWeightKeys : Cardinality(k) <= MaxNewWeights} }

InitWeights ==
    /\ pc = "call"
    /\ dir_exists = FALSE
    /\ json_files = <<>>
    /\ jd_requirements = [isdict |-> TRUE, value |-> EmptyJD]
    /\ candidates = <<>>
    /\ idx = 0
    /\ agent = [a \in Agents |-> IdleAgent]
    /\ results = <<>>
    /\ ranked = <<>>
    /\ llm_calls = 0
    /\ error = NoError
    /\ call = [ fn |-> "", weights |-> InitialWeights, updates |-> 0,
                new_weights |-> <<>>, raised |-> "", weights_used |-> <<>> ]

\* analyzer.update_weights(new_weights)
CallUpdateWeights(new_weights) ==
    /\ pc = "call"
    /\ call.updates < MaxUpdates
    /\ LET r == update_weights(call.weights, new_weights)
       IN  call' = [call EXCEPT !.fn = "update_weights",
                                !.updates = @ + 1,
                                !.new_weights = new_weights,
                                !.raised = r.raised,
                                !.weights = r.weights]
    /\ UNCHANGED <<pc, dir_exists, json_files, jd_requirements, candidates, idx,
                   agent, results, ranked, llm_calls, error>>

\* analyzer.analyze(parsed_resume): _calculate_overall_score reads
\* self.weights, and the metadata reports them as weights_used
CallAnalyze ==
    /\ pc = "call"
    /\ call.fn # "analyze"
    /\ call' = [call EXCEPT !.fn = "analyze", !.raised = "",
                            !.weights_used = call.weights]
    /\ UNCHANGED <<pc, dir_exists, json_files, jd_requirements, candidates, idx,
                   agent, results, ranked, llm_calls, error>>

NextWeights ==
    \/ \E new_weights \in NewWeights : CallUpdateWeights(new_weights)
    \/ CallAnalyze

SpecWeights == InitWeights /\ [][NextWeights]_vars

\* the sum is 1.0 give or take 0.01 and every category is a known one
ValidWeightSet(weights) ==
    /\ SumValues(weights) >= 99 /\ SumValues(weights) <= 101
    /\ DOMAIN weights \subseteq categories

\* C14: a weight set whose sum differs from 1.0 by more than 0.01 or that
\* names an unknown category is rejected by update_weights with an error
\* and leaves the weights in effect unchanged, so that scoring never runs
\* with such a weight set.
C14_InvalidWeightsNeverUsed ==
    /\ (call.fn = "update_weights" /\ ~ValidWeightSet(call.new_weights)) =>
          call.raised # ""
    /\ call.fn = "analyze" => ValidWeightSet(call.weights_used)


(***************************************************************************)
(* backend/app/services/parser.py: ResumeParser._post_process              *)
(* A JSON value carries its Python type in t: None, a string (a sequence   *)
(* of characters), a list (a sequence of values) or a dict (a function     *)
(* from keys to values).                                                   *)
(***************************************************************************)
None == [t |-> "none", v |-> <<>>]
StrV(s) == [t |-> "str", v |-> s]
ListV(items) == [t |-> "list", v |-> items]
DictV(f) == [t |-> "dict", v |-> f]

Str_Present == <<"P", "r", "e", "s", "e", "n", "t">>
Str_Current == <<"C", "u", "r", "r", "e", "n", "t">>
Str_2020_padded == <<" ", "2", "0", "2", "0">>

\* the sub-keys of the two nested sections of default_structure
PersonalInfoKeys == {"name", "email", "phone", "location", "linkedin", "github", "website"}
SkillsKeys == {"technical", "soft_skills", "tools"}
\* the sections of default_structure whose default is an empty list
ListSections == {"experience", "education", "certifications", "projects",
                 "languages", "achievements"}

default_structure ==
    [ key \in {"personal_info", "summary", "skills"} \cup ListSections |->
        CASE key = "personal_info" -> DictV([k \in PersonalInfoKeys |-> None])
          [] key = "summary" -> None
          [] key = "skills" -> DictV([k \in SkillsKeys |-> ListV(<<>>)])
          [] OTHER -> ListV(<<>>) ]

\* "Merge with defaults": a missing key gets its default, a present nested
\* dict gets its missing sub-keys
MergeDefaults(data) ==
    [ key \in DOMAIN data \cup DOMAIN default_structure |->
        IF key \notin DOMAIN data THEN default_structure[key]
        ELSE IF key \in DOMAIN default_structure /\ default_structure[key].t = "dict"
        THEN LET sub == default_structure[key].v
                 old == data[key].v
             IN  DictV([k \in DOMAIN old \cup DOMAIN sub |->
                          IF k \in DOMAIN old THEN old[k] ELSE sub[k]])
        ELSE data[key] ]

\* the merge subscripts data[key] with a sub-key, which only a dict allows
MergeRaises(data) ==
    \E key \in DOMAIN data \cap DOMAIN default_structure :
        default_structure[key].t = "dict" /\ data[key].t # "dict"

\* _format_date of None or a string
format_date(date_str) ==
    IF date_str.t = "none" \/ date_str.v = <<>>
         \/ date_str.v \in {Str_Present, Str_Current, <<"N", "o", "w">>}
    THEN StrV(Str_Present)
    ELSE StrV(Strip(date_str.v))

\* exp.get(key)
DictGet(d, key) == IF key \in DOMAIN d THEN d[key] ELSE None

\* the loop of _normalize_dates over one list section
NormalizeEntries(entries) ==
    [ i \in 1..Len(entries) |->
        IF entries[i].t # "dict" THEN entries[i]
        ELSE LET exp == entries[i].v
             IN  DictV([k \in DOMAIN exp \cup {"start_date", "end_date"} |->
                          IF k \in {"start_date", "end_date"}
                          THEN format_date(DictGet(exp, k))
                          ELSE exp[k]]) ]

normalize_dates(data) ==
    [ key \in DOMAIN data |->
        IF key \in {"experience", "education"} /\ data[key].t = "list"
        THEN ListV(NormalizeEntries(data[key].v))
        ELSE data[key] ]

\* v is not None and v != "" and v != []
KeptInDict(v) == ~(v.t = "none") /\ ~(v.t \in {"str", "list"} /\ v.v = <<>>)
\* item is not None and item != "" and item != {}
KeptInList(item) == ~(item.t = "none") /\ ~(item.t \in {"str", "dict"} /\ item.v = <<>>)

RECURSIVE clean_empty_values(_)
clean_empty_values(data) ==
    IF data.t = "dict"
    THEN DictV([k \in {k \in DOMAIN data.v : KeptInDict(data.v[k])} |->
                  clean_empty_values(data.v[k])])
    ELSE IF data.t = "list"
    THEN LET kept == SelectSeq(data.v, KeptInList)
         IN  ListV([i \in 1..Len(kept) |-> clean_empty_values(kept[i])])
    ELSE data

\* _post_process(data): the exception raised, if any, and the dict returned
post_process(data) ==
    IF MergeRaises(data)
    THEN [raised |-> "TypeError", data |-> <<>>]
    ELSE [raised |-> "",
          data |-> clean_empty_values(DictV(normalize_dates(MergeDefaults(data)))).v]

\* what the LLM may have put under a key of the parsed resume; the first
\* variant of each key is the key's absence
Absent == [t |-> "absent", v |-> <<>>]
SectionVariants ==
    [ key \in {"personal_info", "summary", "experience", "skills", "certifications"} |->
        CASE key = "personal_info" ->
                << Absent, DictV([k \in {"name"} |-> StrV(<<"A", "n", "n">>)]) >>
          [] key = "summary" ->
                << Absent, None, StrV(<<>>), StrV(<<"D", "e", "v">>) >>
          [] key = "experience" ->
                << Absent, ListV(<<>>),
                   ListV(<< DictV([k \in {"title", "start_date", "end_date"} |->
                                CASE k = "title" -> StrV(Str_Data_Engineer)
                                  [] k = "start_date" -> StrV(Str_2020_padded)
                                  [] k = "end_date" -> None]) >>),
                   ListV(<< DictV(<<>>), None >>) >>
          [] key = "skills" ->
                << Absent, DictV(<<>>),
                   DictV([k \in {"technical"} |-> ListV(<<StrV(Str_Python), StrV(<<>>)>>)]),
                   ListV(<<StrV(Str_Python)>>) >>
          [] key = "certifications" ->
                << Absent, ListV(<<>>), ListV(<<StrV(<<"A", "W", "S">>)>>) >> ]

\* the dict with, under each key, the chosen variant
ParsedData(choice) ==
    [ key \in {k \in DOMAIN SectionVariants : choice[k] # 1} |->
        SectionVariants[key][choice[key]] ]

ParsedChoices ==
    { choice \in [DOMAIN SectionVariants -> 1..4] :
        \A k \in DOMAIN SectionVariants : choice[k] <= Len(SectionVariants[k]) }

InitParser ==
    /\ pc = "call"
    /\ dir_exists = FALSE
    /\ json_files = <<>>
    /\ jd_requirements = [isdict |-> TRUE, value |-> EmptyJD]
    /\ candidates = <<>>
    /\ idx = 0
    /\ agent = [a \in Agents |-> IdleAgent]
    /\ results = <<>>
    /\ ranked = <<>>
    /\ llm_calls = 0
    /\ error = NoError
    /\ call = [fn |-> "", data |-> <<>>, raised |-> "", out |-> <<>>]

\* processed_data = self._post_process(parsed_data)
CallPostProcess(data) ==
    /\ pc = "call"
    /\ call.fn = ""
    /\ LET r == post_process(data)
       IN  call' = [fn |-> "_post_process", data |-> data, raised |-> r.raised,
                    out |-> r.data]
    /\ UNCHANGED <<pc, dir_exists, json_files, jd_requirements, candidates, idx,
                   agent, results, ranked, llm_calls, error>>

NextParser == \E choice \in ParsedChoices : CallPostProcess(ParsedData(choice))

SpecParser == InitParser /\ [][NextParser]_vars

\* C15: after _post_process every section of the parsed resume (experience,
\* education, skills with technical, soft_skills and tools, certifications,
\* projects, languages, achievements) is present as a key, an empty section
\* being an empty container and never an omitted key.
C15_SectionsAlwaysPresent ==
    (call.fn = "_post_process" /\ call.raised = "") =>
        /\ ListSections \cup {"skills"} \subseteq DOMAIN call.out
        /\ \A key \in ListSections : call.out[key].t = "list"
        /\ call.out["skills"].t = "dict"
        /\ SkillsKeys \subseteq DOMAIN call.out["skills"].v


\* the baseline of ExperienceAgent as the specification states it, in
\* 1/Scale points, from the facts of the call: years in tenths of a year
StatedExperienceBaseline ==
    LET tenths == call.facts.years_of_experience
        min_required == call.facts.min_required_years
        point == Scale
        tiered ==
            IF min_required = 0 THEN Min2(100 * point, 50 * point + tenths * point)
            ELSE IF 2 * tenths >= 3 * 10 * min_required THEN 100 * point
            ELSE IF tenths >= 10 * min_required THEN 90 * point
            ELSE IF 4 * tenths >= 3 * 10 * min_required THEN 70 * point
            ELSE Max2(20 * point, (tenths * 70 * point) \div (10 * min_required))
    IN  IF call.facts.role_relevant = FALSE /\ tenths > 0
        THEN (tiered * 3) \div 5
        ELSE tiered

\* C16: the ExperienceAgent baseline is min(100, 50 + years x 10) when
\* min_required is 0, else 100 from 1.5 x min_required years, 90 from
\* min_required, 70 from 0.75 x min_required, else max(20, years /
\* min_required x 70), and is multiplied by 0.6 exactly when the roles are
\* not relevant and years > 0; the agent reports it, rounded to one decimal,
\* as its baseline category score.
C16_ExperienceBaseline ==
    call.fn = "ExperienceAgent" =>
       /\ experience_base_score(call.facts) = StatedExperienceBaseline
       /\ <<"baseline", Round1(StatedExperienceBaseline)>> \in call.out.category_scores

\* the scenario of the specification: 3.5 relevant years against a minimum
\* of 2 give a baseline of 100
C16_Witness ==
    /\ call.fn = "ExperienceAgent"
    /\ call.facts.min_required_years = 2
    /\ call.facts.years_of_experience = 35
    /\ call.facts.role_relevant
    /\ <<"baseline", 1000>> \in call.out.category_scores

\* 1.5 years in roles that are not relevant against a minimum of 2: the 70
\* of the 0.75 tier times 0.6
C16_WitnessPenalty ==
    /\ call.fn = "ExperienceAgent"
    /\ call.facts.min_required_years = 2
    /\ call.facts.years_of_experience = 15
    /\ ~call.facts.role_relevant
    /\ <<"baseline", 420>> \in call.out.category_scores


(***************************************************************************)
(* SpecFacts: the functions of utils/factual_extraction.py, each applied   *)
(* to a candidate and a parsed job description drawn from bounded sets     *)
(***************************************************************************)
\* most positions in the experience of a candidate
MaxPositions == 2

\* positions: 42 months to the present, an unparseable start, an
\* unparseable end, an end before the start, 3 months, 18 months
FactPositions ==
    { DocAnn.experience[1], DocBob.experience[1],
      [position |-> Str_Data_Engineer, start_date |-> DateYM(2022, 1), end_date |-> DateBad],
      [position |-> Str_Data_Engineer, start_date |-> DateYM(2023, 1), end_date |-> DateYM(2022, 1)],
      [position |-> Str_Sales_Manager, start_date |-> DateYM(2022, 1), end_date |-> DateYM(2022, 4)],
      [position |-> Str_Sales_Manager, start_date |-> DateYM(2021, 1), end_date |-> DateYM(2022, 7)] }

FactCandidates ==
    { [EmptyDoc EXCEPT !.name = "Dee", !.has_email = TRUE,
                       !.technical = technical, !.education = education,
                       !.experience = experience] :
        technical \in { <<>>, <<Str_Python>>, <<Str_Python, Str_SQL_padded>>,
                        <<Str_JavaScript, Str_Python>> },
        education \in { <<>>, DocAnn.education, DocBob.education,
                        << [degree |-> Str_BSc_Physics] >>,
                        << [degree |-> Str_MS_Data_Science] >>,
                        << [degree |-> Str_Bachelor_of_Arts] >>,
                        << [degree |-> Str_BA_History], [degree |-> Str_MS_Data_Science] >> },
        experience \in SeqsUpTo(FactPositions, MaxPositions) }

\* job descriptions without and with required skills, with and without a
\* minimum of years, and one without any key
FactJDs ==
    {jd \in CallJDs : jd.min_experience_years = 0} \cup {ObjJD, EmptyJD}

InitFacts ==
    /\ pc = "call"
    /\ dir_exists = FALSE
    /\ json_files = <<>>
    /\ jd_requirements = [isdict |-> TRUE, value |-> EmptyJD]
    /\ candidates = <<>>
    /\ idx = 0
    /\ agent = [a \in Agents |-> IdleAgent]
    /\ results = <<>>
    /\ ranked = <<>>
    /\ llm_calls = 0
    /\ error = NoError
    /\ \E candidate \in FactCandidates, jd \in FactJDs :
          call = [fn |-> "", candidate |-> candidate, jd |-> jd, out |-> <<>>]

\* years_of_experience = calculate_experience_years(candidate)
CallCalculateExperienceYears ==
    /\ pc = "call"
    /\ call.fn = ""
    /\ call' = [call EXCEPT !.fn = "calculate_experience_years",
                            !.out = calculate_experience_years(call.candidate)]
    /\ UNCHANGED <<pc, dir_exists, json_files, jd_requirements, candidates, idx,
                   agent, results, ranked, llm_calls, error>>

\* matched_skills, missing_skills = match_skills(candidate_skills, required_skills)
CallMatchSkills ==
    /\ pc = "call"
    /\ call.fn = ""
    /\ call' = [call EXCEPT !.fn = "match_skills",
                            !.out = match_skills(extract_skills(call.candidate),
                                                 call.jd.required_skills)]
    /\ UNCHANGED <<pc, dir_exists, json_files, jd_requirements, candidates, idx,
                   agent, results, ranked, llm_calls, error>>

\* education_info = check_education_relevance(candidate, "technical")
CallCheckEducationRelevance ==
    /\ pc = "call"
    /\ call.fn = ""
    /\ call' = [call EXCEPT !.fn = "check_education_relevance",
                            !.out = check_education_relevance(call.candidate)]
    /\ UNCHANGED <<pc, dir_exists, json_files, jd_requirements, candidates, idx,
                   agent, results, ranked, llm_calls, error>>

\* facts = get_factual_baseline(candidate, jd_requirements)
CallGetFactualBaseline ==
    /\ pc = "call"
    /\ call.fn = ""
    /\ call' = [call EXCEPT !.fn = "get_factual_baseline",
                            !.out = get_factual_baseline(call.candidate, call.jd)]
    /\ UNCHANGED <<pc, dir_exists, json_files, jd_requirements, candidates, idx,
                   agent, results, ranked, llm_calls, error>>

\* role_info = check_role_relevance(candidate, jd_requirements)
CallCheckRoleRelevance ==
    /\ pc = "call"
    /\ call.fn = ""
    /\ call' = [call EXCEPT !.fn = "check_role_relevance",
                            !.out = check_role_relevance(call.candidate, call.jd)]
    /\ UNCHANGED <<pc, dir_exists, json_files, jd_requirements, candidates, idx,
                   agent, results, ranked, llm_calls, error>>

NextFacts ==
    \/ CallCheckRoleRelevance
    \/ CallCalculateExperienceYears
    \/ CallMatchSkills
    \/ CallCheckEducationRelevance
    \/ CallGetFactualBaseline

SpecFacts == InitFacts /\ [][NextFacts]_vars

RECURSIVE SeqSum(_)
SeqSum(numbers) ==
    IF numbers = <<>> THEN 0 ELSE Head(numbers) + SeqSum(Tail(numbers))

\* a date string that cannot be parsed as the start, or as the end, of a
\* position
UnparseableStart(exp) == exp.start_date.kind # "ym"
UnparseableEnd(exp) == exp.end_date.kind \notin {"ym", "present"}

\* the months the specification gives each position of the called candidate:
\* 12 when a date cannot be parsed, else the whole months from start to end
\* (to now for a current position), never less than 0
StatedMonths ==
    [ i \in 1..Len(call.candidate.experience) |->
        LET exp == call.candidate.experience[i]
            end == IF exp.end_date.kind = "present" THEN NowDate ELSE exp.end_date
            span == (12 * end.y + end.m) - (12 * exp.start_date.y + exp.start_date.m)
        IN  IF UnparseableStart(exp) \/ UnparseableEnd(exp) THEN 12
            ELSE IF span < 0 THEN 0 ELSE span ]

\* C17: calculate_experience_years returns, whatever the date strings, the
\* sum over the positions of their months divided by 12 and rounded to one
\* decimal, where a position with an unparseable start or end date counts
\* 12 months and every other position its own non-negative month count.
C17_ExperienceYears ==
    call.fn = "calculate_experience_years" =>
       /\ call.out \in Nat
       /\ call.out = RoundHalfEven(10 * SeqSum(StatedMonths), 12)

\* a candidate with one position whose start cannot be parsed and one of 42
\* months: 54 months, 4.5 years
C17_Witness ==
    /\ call.fn = "calculate_experience_years"
    /\ Len(call.candidate.experience) = 2
    /\ UnparseableStart(call.candidate.experience[1])
    /\ ~UnparseableStart(call.candidate.experience[2])
    /\ StatedMonths = <<12, 42>>
    /\ call.out = 45


\* the elements of a sequence
Range(s) == {s[i] : i \in 1..Len(s)}

\* some skill of the called candidate equals the required skill once both
\* are lower-cased and trimmed
HasSkill(required_skill) ==
    \E skill \in extract_skills(call.candidate) :
        Lower(Strip(skill)) = Lower(Strip(required_skill))

\* C18: match_skills partitions required_skills into matched and missing:
\* every required skill is in exactly one of them, the two together are as
\* long as required_skills, and a required skill is matched exactly when a
\* candidate skill equals it after lower-casing and trimming, never by a
\* substring.
C18_MatchSkillsPartition ==
    call.fn = "match_skills" =>
       LET required_skills == call.jd.required_skills
       IN  /\ Len(call.out.matched) + Len(call.out.missing) = Len(required_skills)
           /\ Range(call.out.matched) \cap Range(call.out.missing) = {}
           /\ \A r \in Range(required_skills) :
                 /\ r \in Range(call.out.matched) <=> HasSkill(r)
                 /\ r \in Range(call.out.missing) <=> ~HasSkill(r)

\* the scenario of the specification, with a padded " SQL " of the candidate
\* against a required "sql": Python and sql matched, Java missing
C18_Witness ==
    /\ call.fn = "match_skills"
    /\ extract_skills(call.candidate) = {Str_Python, <<"S", "Q", "L">>}
    /\ call.jd.required_skills = <<Str_Python, Str_Java, Str_sql_lc>>
    /\ call.out.matched = <<Str_Python, Str_sql_lc>>
    /\ call.out.missing = <<Str_Java>>

\* a candidate with JavaScript and no Java: the required Java is missing
C18_WitnessNoSubstring ==
    /\ call.fn = "match_skills"
    /\ Str_JavaScript \in extract_skills(call.candidate)
    /\ Str_Java \in Range(call.out.missing)


\* C19: get_factual_baseline returns a skill_match_percentage of 50 whenever
\* required_skills is empty, whatever the candidate's skills, and otherwise
\* matched / required x 100 rounded to one decimal, which lies in [0,100]
\* (the percentage is held in tenths of a percent).
C19_SkillMatchPercentage ==
    call.fn = "get_factual_baseline" =>
       LET required == Len(call.out.required_skills)
           matched == Cardinality({i \in 1..required :
                                     HasSkill(call.out.required_skills[i])})
       IN  /\ required = 0 => call.out.skill_match_percentage = 50 * 10
           /\ required > 0 =>
                 /\ call.out.skill_match_percentage
                      = RoundHalfEven(matched * 100 * 10, required)
                 /\ call.out.skill_match_percentage \in 0..(100 * 10)

\* a candidate with skills against a job description without required
\* skills gets 50
C19_Witness ==
    /\ call.fn = "get_factual_baseline"
    /\ call.out.candidate_skills # {}
    /\ call.out.required_skills = <<>>
    /\ call.out.skill_match_percentage = 500

\* the scenario of the specification: two of three required skills matched,
\* 66.7 percent
C19_WitnessTwoThirds ==
    /\ call.fn = "get_factual_baseline"
    /\ Len(call.out.required_skills) = 3
    /\ Len(call.out.matched_skills) = 2
    /\ call.out.skill_match_percentage = 667

\* the text check_education_relevance searches: the degrees joined by a
\* space, in lower case
DegreesText ==
    Lower(JoinSpace([i \in 1..Len(call.candidate.education) |->
                       call.candidate.education[i].degree]))

\* the score of the first tier one of whose keywords the text contains
TierScore ==
    IF ContainsAny(DegreesText, high_relevance) THEN 100
    ELSE IF ContainsAny(DegreesText, medium_relevance) THEN 70
    ELSE IF ContainsAny(DegreesText, generic_degree) THEN 30
    ELSE 10

\* C20: check_education_relevance gives score 0 and relevant = false for no
\* education entries, and otherwise the score of the first tier that
\* matches the joined lower-cased degree text: 100 for a high-relevance
\* keyword, else 70 for a medium-relevance keyword, else 30 for a generic
\* degree keyword, else 10; the score is always one of 0, 10, 30, 70, 100.
C20_EducationTiers ==
    call.fn = "check_education_relevance" =>
       /\ call.out.score \in {0, 10, 30, 70, 100}
       /\ call.candidate.education = <<>> =>
             call.out.score = 0 /\ call.out.relevant = FALSE
       /\ call.candidate.education # <<>> => call.out.score = TierScore

\* a degree in physics holds the high-relevance keyword "cs" and the
\* medium-relevance keyword "physics": the first tier wins, 100
C20_Witness ==
    /\ call.fn = "check_education_relevance"
    /\ ContainsAny(DegreesText, high_relevance)
    /\ ContainsAny(DegreesText, medium_relevance)
    /\ call.out.score = 100

\* two entries, of which the second holds a medium-relevance keyword: 70
C20_WitnessMedium ==
    /\ call.fn = "check_education_relevance"
    /\ Len(call.candidate.education) = 2
    /\ call.out.score = 70


\* C21: the strengths and weaknesses SkillAgent returns depend only on the
\* factual baseline: with the facts of the call, every other LLM answer,
\* also one carrying strengths and weaknesses of its own, gives the same
\* strengths and weaknesses, which name the matched skills, the first degree
\* and the missing skills.
C21_StrengthsFromFactsOnly ==
    call.fn = "SkillAgent" =>
       /\ \A other \in CallAnswers :
             /\ SkillAgent_score(call.facts, other).strengths = call.out.strengths
             /\ SkillAgent_score(call.facts, other).weaknesses = call.out.weaknesses
       /\ call.out.strengths[1].items = FirstN(call.facts.matched_skills, 3)
       /\ call.out.weaknesses[1].items = FirstN(call.facts.missing_skills, 3)
       /\ call.llm.strengths # <<>> => call.llm.strengths[1] \notin Range(call.out.strengths)
       /\ call.llm.weaknesses # <<>> => call.llm.weaknesses[1] \notin Range(call.out.weaknesses)

\* SkillAgent was called with an answer that carries strengths and
\* weaknesses of its own and returned those of the facts
C21_Witness ==
    /\ call.fn = "SkillAgent"
    /\ "strengths" \in call.llm.keys
    /\ call.llm.strengths = <<Item("llm other strength", <<>>)>>
    /\ call.facts.matched_skills # <<>>
    /\ call.out.strengths[1] = Item("Has required", call.facts.matched_skills)


\* job descriptions that differ in role_level, domain and everything else
OtherJDs ==
    { EmptyJD, ObjJD,
      [ObjJD EXCEPT !.role_level = "senior"],
      [ObjJD EXCEPT !.keys = @ \cup {"domain"}, !.domain = "retail"],
      [ObjJD EXCEPT !.keys = @ \cup {"domain"}, !.domain = "software",
                    !.role_level = "lead", !.required_skills = <<>>,
                    !.min_experience_years = 0] }

\* the position title holds one of the fixed keywords, whatever the case
TitleHasKeyword(title) ==
    \E k \in 1..Len(relevant_keywords) :
        \E i \in 1..Len(title) :
            /\ i + Len(relevant_keywords[k]) - 1 <= Len(title)
            /\ Lower(SubSeq(title, i, i + Len(relevant_keywords[k]) - 1))
                 = relevant_keywords[k]

\* C22: check_role_relevance does not depend on the job requirements: for
\* the candidate of the call every other job description gives the same
\* relevant flag, relevant_roles and all_roles; relevant is true exactly
\* when some position title contains, case-insensitively, one of the fixed
\* keywords.
C22_RoleRelevanceIgnoresJD ==
    call.fn = "check_role_relevance" =>
       /\ \A jd \in OtherJDs : check_role_relevance(call.candidate, jd) = call.out
       /\ call.out.relevant <=>
             \E i \in 1..Len(call.candidate.experience) :
                TitleHasKeyword(call.candidate.experience[i].position)
       /\ call.out.all_roles = [i \in 1..Len(call.candidate.experience) |->
                                  call.candidate.experience[i].position]
       /\ Range(call.out.relevant_roles)
            = {t \in Range(call.out.all_roles) : TitleHasKeyword(t)}

\* a candidate with a data engineer position, called with a job description
\* of its own, is relevant as it is for a retail job description
C22_Witness ==
    /\ call.fn = "check_role_relevance"
    /\ call.out.relevant
    /\ Str_Data_Engineer \in Range(call.out.relevant_roles)
    /\ Str_Sales_Manager \in Range(call.out.all_roles)
    /\ "domain" \notin call.jd.keys


(***************************************************************************)
(* backend/app/services/ollama_service.py: generate_json and _extract_json *)
(* A response text is a sequence of pieces: the two fence markers          *)
(* (FenceJson, Fence), the braces "{" and "}", "k" (a member of a JSON     *)
(* object, "key": value), "p" (a character of prose) and " " (white        *)
(* space).  A parsed JSON object is [t |-> "dict", v |-> its members], a   *)
(* member being a leaf or a nested object.                                 *)
(***************************************************************************)
\* largest retry_attempts (settings.RETRY_ATTEMPTS is 3)
MaxRetryAttempts == 3

JsonLeaf == [t |-> "leaf", v |-> <<>>]
JsonDict(members) == [t |-> "dict", v |-> members]
ParseFailure == [ok |-> FALSE, members |-> <<>>, next |-> 0]

\* the members of the object whose "{" precedes position i, and the
\* position after its "}"
RECURSIVE ParseMembers(_, _)
ParseMembers(text, i) ==
    IF i > Len(text) THEN ParseFailure
    ELSE IF text[i] = "}" THEN [ok |-> TRUE, members |-> <<>>, next |-> i + 1]
    ELSE IF text[i] = " " THEN ParseMembers(text, i + 1)
    ELSE IF text[i] = "k"
    THEN LET rest == ParseMembers(text, i + 1)
         IN  IF rest.ok THEN [rest EXCEPT !.members = <<JsonLeaf>> \o @] ELSE ParseFailure
    ELSE IF text[i] = "{"
    THEN LET inner == ParseMembers(text, i + 1)
             rest == ParseMembers(text, inner.next)
         IN  IF inner.ok /\ rest.ok
             THEN [rest EXCEPT !.members = <<JsonDict(inner.members)>> \o @]
             ELSE ParseFailure
    ELSE ParseFailure

\* json.loads(text) of the backend: the object, or JSONDecodeError for a
\* text that is not one object
ollama_json_loads(text) ==
    LET s == Strip(text)
        r == IF s # <<>> /\ s[1] = "{" THEN ParseMembers(s, 2) ELSE ParseFailure
    IN  IF r.ok /\ r.next = Len(s) + 1
        THEN [raised |-> "", value |-> JsonDict(r.members)]
        ELSE [raised |-> "JSONDecodeError", value |-> JsonDict(<<>>)]

\* json.dumps(value): the members separated by ", "
RECURSIVE json_dumps(_)
json_dumps(value) ==
    IF value.t = "leaf" THEN <<"k">>
    ELSE LET members == value.v
             Joined[i \in 0..Len(members)] ==
                 IF i = 0 THEN <<>>
                 ELSE Joined[i - 1] \o (IF i > 1 THEN <<" ">> ELSE <<>>)
                      \o json_dumps(members[i])
         IN  <<"{">> \o Joined[Len(members)] \o <<"}">>

\* text.find(piece, start) for a piece among pieces: the first position
\* from start on, 0 for Python's -1
Find(text, pieces, start) ==
    LET hits == {i \in start..Len(text) : text[i] \in pieces}
    IN  IF hits = {} THEN 0 ELSE CHOOSE i \in hits : \A j \in hits : i <= j

\* text.rfind(piece)
RFind(text, pieces) ==
    LET hits == {i \in 1..Len(text) : text[i] \in pieces}
    IN  IF hits = {} THEN 0 ELSE CHOOSE i \in hits : \A j \in hits : i >= j

\* text[start:end].strip() for start after the first marker among opening
\* and end = text.find("```", start); an end of -1 cuts the last character
FenceBody(text, opening) ==
    LET start == Find(text, opening, 1) + 1
        end == Find(text, {FenceJson, Fence}, start)
    IN  Strip(SubSeq(text, start, IF end = 0 THEN Len(text) - 1 ELSE end - 1))

\* "Try to find JSON in markdown code block"
StripFences(text) ==
    IF Find(text, {FenceJson}, 1) # 0 THEN FenceBody(text, {FenceJson})
    ELSE IF Find(text, {Fence}, 1) # 0 THEN FenceBody(text, {Fence})
    ELSE text

\* "Try to find JSON object boundaries"
TrimToBraces(text) ==
    LET start == Find(text, {"{"}, 1)
        from == IF (text = <<>> \/ text[1] # "{") /\ start # 0
                THEN SubSeq(text, start, Len(text)) ELSE text
        end == RFind(from, {"}"})
    IN  IF (from = <<>> \/ from[Len(from)] # "}") /\ end # 0
        THEN SubSeq(from, 1, end) ELSE from

\* _extract_json returning the object it finds as the only member of another
extract_json_wrapped(text) ==
    ollama_json_loads(<<"{">> \o TrimToBraces(StripFences(Strip(text))) \o <<"}">>)

\* _extract_json(text)
extract_json(text) == ollama_json_loads(TrimToBraces(StripFences(Strip(text))))


\* the response texts with exactly one well-formed object: optional prose,
\* an optional fence whose closing marker is present or cut off, the
\* object, optional prose
ObjectTexts == { <<"{", "k", "}">>, <<"{", "k", " ", "{", "k", "}", "}">> }
ProseTexts == { <<>>, <<"p", "p", " ">> }
WellFormedTexts ==
    { before \o open \o object \o close \o after :
        before \in ProseTexts,
        open \in { <<>>, <<FenceJson, " ">>, <<Fence, " ">> },
        object \in ObjectTexts,
        close \in { <<>>, <<" ", Fence>> },
        after \in { <<>>, <<" ", "p", "p">> } }
    \ { before \o object \o <<" ", Fence>> \o after :
          before \in ProseTexts, object \in ObjectTexts,
          after \in { <<>>, <<" ", "p", "p">> } }

\* response texts without an object: nothing, prose, an object cut off, a
\* fenced block of prose
MalformedTexts ==
    { <<>>, <<"p", "p">>, <<"{", "k">>, <<FenceJson, " ", "p", " ", Fence>> }

ResponseTexts == WellFormedTexts \cup MalformedTexts

InitOllama ==
    /\ pc = "call"
    /\ dir_exists = FALSE
    /\ json_files = <<>>
    /\ jd_requirements = [isdict |-> TRUE, value |-> EmptyJD]
    /\ candidates = <<>>
    /\ idx = 0
    /\ agent = [a \in Agents |-> IdleAgent]
    /\ results = <<>>
    /\ ranked = <<>>
    /\ llm_calls = 0
    /\ error = NoError
    /\ call = [ fn |-> "", at |-> "idle", retry_attempts |-> 0, attempt |-> 0,
                calls |-> 0, reminders |-> 0, history |-> <<>>,
                response_text |-> <<>>, out |-> JsonDict(<<>>), raised |-> "" ]

\* generate_json(prompt, retry_attempts = k) up to the first await of
\* self.generate
CallGenerateJson(k) ==
    /\ pc = "call"
    /\ call.at = "idle"
    /\ call' = [call EXCEPT !.fn = "generate_json", !.at = "generate",
                            !.retry_attempts = k, !.calls = 1]
    /\ UNCHANGED <<pc, dir_exists, json_files, jd_requirements, candidates, idx,
                   agent, results, ranked, llm_calls, error>>

\* self.generate returns response_text: it is parsed and returned, or the
\* JSONDecodeError handler runs
GenerateReturns(response_text) ==
    /\ pc = "call"
    /\ call.at = "generate"
    /\ LET json_data == extract_json(response_text)
           history == Append(call.history, IF json_data.raised = "" THEN "parsed"
                                           ELSE json_data.raised)
       IN  IF json_data.raised = ""
           THEN call' = [call EXCEPT !.at = "returned", !.history = history,
                                     !.response_text = response_text,
                                     !.out = json_data.value]
           ELSE IF call.attempt < call.retry_attempts - 1
           THEN call' = [call EXCEPT !.at = "sleep", !.history = history,
                                     !.response_text = response_text,
                                     !.reminders = @ + 1]
           ELSE call' = [call EXCEPT !.at = "raised", !.history = history,
                                     !.response_text = response_text,
                                     !.raised = "Exception: Failed to parse JSON"]
    /\ UNCHANGED <<pc, dir_exists, json_files, jd_requirements, candidates, idx,
                   agent, results, ranked, llm_calls, error>>

\* a transport error ending generate_json at once, whatever the attempt
GenerateRaises_no_retry ==
    /\ pc = "call"
    /\ call.at = "generate"
    /\ call' = [call EXCEPT !.at = "raised",
                            !.history = Append(@, "Exception"),
                            !.raised = "Exception: Ollama request failed"]
    /\ UNCHANGED <<pc, dir_exists, json_files, jd_requirements, candidates, idx,
                   agent, results, ranked, llm_calls, error>>

\* self.generate raises (the request failed or timed out): the handler of
\* Exception runs
GenerateRaises ==
    /\ pc = "call"
    /\ call.at = "generate"
    /\ LET history == Append(call.history, "Exception")
       IN  IF call.attempt < call.retry_attempts - 1
           THEN call' = [call EXCEPT !.at = "sleep", !.history = history]
           ELSE call' = [call EXCEPT !.at = "raised", !.history = history,
                                     !.raised = "Exception: Ollama request failed"]
    /\ UNCHANGED <<pc, dir_exists, json_files, jd_requirements, candidates, idx,
                   agent, results, ranked, llm_calls, error>>

\* asyncio.sleep(2) returns: the next attempt calls self.generate
SleepReturns ==
    /\ pc = "call"
    /\ call.at = "sleep"
    /\ call' = [call EXCEPT !.at = "generate", !.attempt = @ + 1, !.calls = @ + 1]
    /\ UNCHANGED <<pc, dir_exists, json_files, jd_requirements, candidates, idx,
                   agent, results, ranked, llm_calls, error>>

NextOllama ==
    \/ \E k \in 1..MaxRetryAttempts : CallGenerateJson(k)
    \/ \E response_text \in ResponseTexts : GenerateReturns(response_text)
    \/ GenerateRaises
    \/ SleepReturns

SpecOllama == InitOllama /\ [][NextOllama]_vars

\* self.generate returns or raises within the request timeout, and the
\* sleep returns
FairSpecOllama == SpecOllama /\ WF_vars(NextOllama)

\* the object a text with exactly one object holds: what lies from its
\* first to its last brace
TheObject(text) ==
    ollama_json_loads(SubSeq(text, Find(text, {"{"}, 1), RFind(text, {"}"}))).value

\* the last attempt of generate_json got a response text, call.response_text,
\* and has handled it
Handled ==
    /\ call.at \in {"returned", "sleep", "raised"}
    /\ call.history[Len(call.history)] # "Exception"

\* C23: for a text made of optional brace-free prose, an optional fence
\* (tagged json or plain, its closing marker present or cut off), exactly
\* one well-formed JSON object and optional brace-free prose, _extract_json
\* returns that object: such a response always ends generate_json with the
\* object returned.
C23_ExtractsTheObject ==
    (Handled /\ call.response_text \in WellFormedTexts) =>
        /\ call.at = "returned"
        /\ call.out = TheObject(call.response_text)


\* the texts with one object that is bare or wrapped in a json fence and
\* its closing fence, with or without prose around
WrappedTexts ==
    { text \in WellFormedTexts :
        \/ Find(text, {FenceJson, Fence}, 1) = 0
        \/ Find(text, {FenceJson}, 1) # 0 /\ Find(text, {Fence}, 1) # 0 }

Parses(i) == call.history[i] = "parsed"

\* generate_json is over: it returned a value or raised
Terminated == call.at \in {"returned", "raised"}

\* what C25 says of every state of a call of generate_json
AtMostKCalls ==
    call.fn = "generate_json" =>
       /\ call.retry_attempts >= 1
       /\ call.calls <= call.retry_attempts
       /\ Len(call.history) <= call.calls
       /\ call.at = "returned" =>
             /\ Len(call.history) = call.calls
             /\ Parses(call.calls)
             /\ \A i \in 1..(call.calls - 1) : ~Parses(i)
             /\ extract_json(call.response_text).raised = ""
             /\ call.out = extract_json(call.response_text).value
             /\ call.raised = ""
       /\ call.at = "raised" =>
             /\ call.calls = call.retry_attempts
             /\ Len(call.history) = call.retry_attempts
             /\ \A i \in 1..call.retry_attempts : ~Parses(i)
             /\ call.raised # ""
       /\ call.at \in {"generate", "sleep"} =>
             \A i \in 1..Len(call.history) : ~Parses(i)

\* once generate_json is over no further call of generate is made
NoCallAfterEnd == Terminated => call' = call

\* C25: generate_json with retry_attempts = k >= 1 calls generate at most k
\* times, returns the JSON extracted from the first response that parses
\* without a further call, raises only after the k-th attempt has failed
\* (by a transport error or an unparseable text), and always terminates
\* with a parsed value or an exception.
C25_RetryBound ==
    /\ [](AtMostKCalls)
    /\ [][NoCallAfterEnd]_vars
    /\ (call.fn = "generate_json") ~> Terminated

\* generate_json with three attempts returned the object of its third
\* response after a transport error and an unparseable text
C25_Witness ==
    /\ call.at = "returned"
    /\ call.retry_attempts = 3
    /\ call.calls = 3
    /\ call.history = <<"Exception", "JSONDecodeError", "parsed">>
    /\ call.out = JsonDict(<<JsonLeaf>>)

\* generate_json raised after its third attempt failed
C25_WitnessRaised ==
    /\ call.at = "raised"
    /\ call.calls = 3
    /\ call.reminders = 2


(***************************************************************************)
(* backend/app/services/resume_analyzer.py: analyze                        *)
(* A category result is [has_score, score, error]: the JSON object of the  *)
(* LLM with or without a "score" key, or the default entry of a failed     *)
(* category.                                                               *)
(***************************************************************************)
\* the JSON objects generate_json may return for a category: a score above
\* the range, and no score at all
CategoryAnswers ==
    { [has_score |-> TRUE, score |-> 150, error |-> ""],
      [has_score |-> FALSE, score |-> 0, error |-> ""] }

\* _analyze_category after generate_json returned result: the score is
\* clamped to 0..100 when there is one
analyze_category(result) ==
    IF result.has_score THEN [result EXCEPT !.score = Max2(0, Min2(100, @))]
    ELSE result

\* the entry of a category whose task raised
DefaultEntry == [has_score |-> TRUE, score |-> 50, error |-> "Failed to analyze"]

\* sum over the categories in cats of score x weight, and of the weights
RECURSIVE WeightedTotal(_, _, _)
WeightedTotal(analysis, weights, cats) ==
    IF cats = {} THEN [score |-> 0, weight |-> 0]
    ELSE LET c == CHOOSE c \in cats : TRUE
             rest == WeightedTotal(analysis, weights, cats \ {c})
         IN  [score |-> rest.score + analysis[c].score * weights[c],
              weight |-> rest.weight + weights[c]]

\* _calculate_overall_score: round(total_score / total_weight) over the
\* weighted categories that have an entry with a score, 0 without any
calculate_overall_score(analysis, weights) ==
    LET scored == {c \in DOMAIN weights :
                     c \in DOMAIN analysis /\ analysis[c].has_score}
        total == WeightedTotal(analysis, weights, scored)
    IN  IF total.weight > 0 THEN RoundHalfEven(total.score, total.weight) ELSE 0

InitAnalyze ==
    /\ pc = "call"
    /\ dir_exists = FALSE
    /\ json_files = <<>>
    /\ jd_requirements = [isdict |-> TRUE, value |-> EmptyJD]
    /\ candidates = <<>>
    /\ idx = 0
    /\ agent = [a \in Agents |-> IdleAgent]
    /\ results = <<>>
    /\ ranked = <<>>
    /\ llm_calls = 0
    /\ error = NoError
    /\ call = [ fn |-> "", at |-> "idle", weights |-> InitialWeights,
                tasks |-> [c \in categories |-> "none"],
                results |-> [c \in categories |-> DefaultEntry],
                analysis |-> <<>>, overall_score |-> 0, raised |-> "" ]

\* analyze up to the await of asyncio.gather: the eight tasks exist
CallAnalyzeGather ==
    /\ pc = "call"
    /\ call.at = "idle"
    /\ call' = [call EXCEPT !.fn = "analyze", !.at = "gather",
                            !.tasks = [c \in categories |-> "pending"]]
    /\ UNCHANGED <<pc, dir_exists, json_files, jd_requirements, candidates, idx,
                   agent, results, ranked, llm_calls, error>>

\* the task of a category returns with the answer of generate_json
CategoryReturns(category, result) ==
    /\ pc = "call"
    /\ call.at = "gather"
    /\ call.tasks[category] = "pending"
    /\ call' = [call EXCEPT !.tasks[category] = "done",
                            !.results[category] = analyze_category(result)]
    /\ UNCHANGED <<pc, dir_exists, json_files, jd_requirements, candidates, idx,
                   agent, results, ranked, llm_calls, error>>

\* the task of a category raises: generate_json failed after its attempts
CategoryRaises(category) ==
    /\ pc = "call"
    /\ call.at = "gather"
    /\ call.tasks[category] = "pending"
    /\ call' = [call EXCEPT !.tasks[category] = "raised"]
    /\ UNCHANGED <<pc, dir_exists, json_files, jd_requirements, candidates, idx,
                   agent, results, ranked, llm_calls, error>>

\* gather with return_exceptions = False: the first exception is raised to
\* analyze, whose handler raises "Resume analysis failed"
GatherReturns_raising ==
    /\ pc = "call"
    /\ call.at = "gather"
    /\ \A c \in categories : call.tasks[c] # "pending"
    /\ IF \E c \in categories : call.tasks[c] = "raised"
       THEN call' = [call EXCEPT !.at = "raised",
                                 !.raised = "Exception: Resume analysis failed"]
       ELSE call' = [call EXCEPT !.at = "returned",
                                 !.analysis = call.results,
                                 !.overall_score =
                                     calculate_overall_score(call.results, call.weights)]
    /\ UNCHANGED <<pc, dir_exists, json_files, jd_requirements, candidates, idx,
                   agent, results, ranked, llm_calls, error>>

\* asyncio.gather(*tasks, return_exceptions=True) returns when every task is
\* over; analyze builds the analysis and the overall score and returns
GatherReturns ==
    /\ pc = "call"
    /\ call.at = "gather"
    /\ \A c \in categories : call.tasks[c] # "pending"
    /\ LET analysis == [c \in categories |->
                          IF call.tasks[c] = "raised" THEN DefaultEntry
                          ELSE call.results[c]]
       IN  call' = [call EXCEPT !.at = "returned",
                                !.analysis = analysis,
                                !.overall_score =
                                    calculate_overall_score(analysis, call.weights)]
    /\ UNCHANGED <<pc, dir_exists, json_files, jd_requirements, candidates, idx,
                   agent, results, ranked, llm_calls, error>>

NextAnalyze ==
    \/ CallAnalyzeGather
    \/ \E c \in categories, result \in CategoryAnswers : CategoryReturns(c, result)
    \/ \E c \in categories : CategoryRaises(c)
    \/ GatherReturns

SpecAnalyze == InitAnalyze /\ [][NextAnalyze]_vars

\* sum of a function's values over a set of its arguments
RECURSIVE SumOver(_, _)
SumOver(f, S) ==
    IF S = {} THEN 0
    ELSE LET x == CHOOSE x \in S : TRUE IN f[x] + SumOver(f, S \ {x})

\* the eight tasks exist together, none is awaited before another starts,
\* and analyze neither returns before the last is over nor raises
AnalyzeGathers ==
    /\ call.at = "gather" => \A c \in categories : call.tasks[c] # "none"
    /\ call.at = "returned" => \A c \in categories : call.tasks[c] \in {"done", "raised"}
    /\ call.raised = "" /\ call.at # "raised"

\* each failed category has the default entry, each other its own result
EntriesKept ==
    call.at = "returned" =>
       \A c \in categories :
          /\ call.tasks[c] = "raised" =>
                /\ call.analysis[c].score = 50
                /\ call.analysis[c].error # ""
          /\ call.tasks[c] = "done" =>
                /\ call.analysis[c] = call.results[c]
                /\ call.analysis[c].error = ""
                /\ call.analysis[c].has_score => call.analysis[c].score \in 0..100

\* C26 as stated: the failure of any subset of the eight concurrent category
\* analyses never fails analyze, each failed category gets the default
\* entry with score 50 and an error message, every successful category
\* keeps its own result, and overall_score is computed over all eight.
C26_AsStated ==
    /\ AnalyzeGathers
    /\ EntriesKept
    /\ call.at = "returned" =>
          /\ \A c \in categories : call.analysis[c].has_score
          /\ call.overall_score
               = RoundHalfEven(SumOver([c \in categories |->
                                          call.analysis[c].score * call.weights[c]],
                                       categories),
                               SumOver(call.weights, categories))

\* C26: the failure of any subset of the eight concurrent category analyses
\* never fails analyze, each failed category gets the default entry with
\* score 50 and an error message, every successful category keeps its own
\* result, and overall_score is the weighted mean, rounded, over the
\* categories whose entry has a score (all eight when every successful
\* answer carries one; 0 when none has).
C26_FailuresAbsorbed ==
    /\ AnalyzeGathers
    /\ EntriesKept
    /\ call.at = "returned" =>
          LET scored == {c \in categories : call.analysis[c].has_score}
          IN  /\ {c \in categories : call.tasks[c] = "raised"} \subseteq scored
              /\ call.overall_score \in 0..100
              /\ scored = {} => call.overall_score = 0
              /\ scored # {} =>
                    call.overall_score
                      = RoundHalfEven(SumOver([c \in scored |->
                                                 call.analysis[c].score * call.weights[c]],
                                              scored),
                                      SumOver(call.weights, scored))

\* analyze returned with some categories failed, some successful with a
\* score and some successful without
C26_Witness ==
    /\ call.at = "returned"
    /\ call.tasks["career_stability"] = "raised"
    /\ call.tasks["skills_competency"] = "done"
    /\ call.analysis["skills_competency"].score = 100
    /\ call.tasks["risk_indicators"] = "done"
    /\ ~call.analysis["risk_indicators"].has_score
    /\ call.analysis["career_stability"] = DefaultEntry


(***************************************************************************)
(* Order of the ExperienceAgent baseline in the years of experience        *)
(***************************************************************************)
\* largest years_of_experience compared, in tenths of a year
MaxYearsTenths == 60

\* the facts of the call with other years of experience
FactsWithYears(years) == [call.facts EXCEPT !.years_of_experience = years]

\* the baseline of the call is not below that of fewer years, and not above
\* that of more years, among the years in Years
MonotoneAmong(Years) ==
    LET own == call.facts.years_of_experience
    IN  \A years \in (IF own \in Years THEN Years ELSE {}) :
           /\ years <= own =>
                 experience_base_score(FactsWithYears(years))
                    <= experience_base_score(call.facts)
           /\ years >= own =>
                 experience_base_score(FactsWithYears(years))
                    >= experience_base_score(call.facts)

\* C27 as stated: for fixed min_required and fixed role_relevant the
\* ExperienceAgent baseline never decreases as the years of experience
\* grow, the step from 0 years to a positive number of years included.
C27_AsStated ==
    call.fn = "ExperienceAgent" => MonotoneAmong(0..MaxYearsTenths)

\* C27: for fixed min_required and fixed role_relevant the ExperienceAgent
\* baseline never decreases as the years of experience grow, among positive
\* years, and from 0 years on when the roles are relevant; with roles that
\* are not relevant a candidate of 0 years keeps the whole year score, which
\* is above the baseline of a candidate of 0.1 years.
C27_MonotoneBaseline ==
    call.fn = "ExperienceAgent" =>
       /\ MonotoneAmong(1..MaxYearsTenths)
       /\ call.facts.role_relevant => MonotoneAmong(0..MaxYearsTenths)
       /\ <<"baseline", Round1(experience_base_score(call.facts))>>
             \in call.out.category_scores
       /\ (~call.facts.role_relevant /\ call.facts.years_of_experience = 0) =>
             experience_base_score(FactsWithYears(1))
                < experience_base_score(call.facts)

\* ExperienceAgent scored a candidate with irrelevant roles and a positive
\* number of years that reaches the 0.75 x min_required tier
C27_Witness ==
    /\ call.fn = "ExperienceAgent"
    /\ ~call.facts.role_relevant
    /\ call.facts.min_required_years > 0
    /\ call.facts.years_of_experience > 0
    /\ 2 * call.facts.years_of_experience >= 15 * call.facts.min_required_years

\* ExperienceAgent scored a candidate with no experience at all
C27_WitnessZeroYears ==
    /\ call.fn = "ExperienceAgent"
    /\ ~call.facts.role_relevant
    /\ call.facts.years_of_experience = 0


(***************************************************************************)
(* The weights in effect after update_weights calls                        *)
(***************************************************************************)
\* analyses with a score of 0 or 100 in every category
ExtremeAnalyses ==
    { [c \in categories |->
         [has_score |-> TRUE, score |-> IF c \in high THEN 100 ELSE 0, error |-> ""]] :
        high \in SUBSET categories }

\* the weights in effect sum to 1.0 give or take 0.01
C28_SumKept == SumValues(call.weights) \in 99..101

\* the overall score of category scores in 0..100 is within 0..100
C28_OverallInRange ==
    \A analysis \in ExtremeAnalyses :
       calculate_overall_score(analysis, call.weights) \in 0..100

\* C28: after any sequence of update_weights calls, accepted or rejected,
\* with full or partial dicts, the weights in effect still sum to 1.0 give
\* or take 0.01, and _calculate_overall_score stays within 0..100 for
\* category scores in 0..100.
C28_WeightsStayNormalised == C28_SumKept /\ C28_OverallInRange


(***************************************************************************)
(* backend/app/api/routes.py: batch_parse_resumes                          *)
(* The requests are coroutines of one event loop: a request runs alone     *)
(* from one await that suspends to the next.  The output folder is the     *)
(* .counter file and the candidate_<n>.json files written so far.          *)
(***************************************************************************)
\* number of batch-parse requests in a run
MaxRequests == 2
\* largest number of files of a request
MaxBatch == 2

Requests == 1..MaxRequests

InitBatch ==
    /\ pc = "call"
    /\ dir_exists = FALSE
    /\ json_files = <<>>
    /\ jd_requirements = [isdict |-> TRUE, value |-> EmptyJD]
    /\ candidates = <<>>
    /\ idx = 0
    /\ agent = [a \in Agents |-> IdleAgent]
    /\ results = <<>>
    /\ ranked = <<>>
    /\ llm_calls = 0
    /\ error = NoError
    /\ call = [ fn |-> "", counter_file |-> 0, saved |-> <<>>,
                request |-> [r \in Requests |->
                               [at |-> "idle", files |-> 0, file |-> 0,
                                current_counter |-> 0, successful |-> 0]] ]

\* the request after the file it was working on: the next file's
\* await file.read(), or the end of the loop
NextFile(req) ==
    IF req.file < req.files
    THEN [req EXCEPT !.at = "read", !.file = @ + 1]
    ELSE [req EXCEPT !.at = "returned"]

\* .counter after the request req moved on: update_candidate_counter runs
\* once the loop is over
CounterAfter(req) ==
    IF req.at = "returned" THEN req.current_counter ELSE call.counter_file

\* a request with `files` PDF files starts: get_candidate_counter, then the
\* first await file.read()
BatchParseStarts(r, files) ==
    /\ pc = "call"
    /\ call.request[r].at = "idle"
    /\ call' = [call EXCEPT !.fn = "batch_parse_resumes",
                   !.request[r] = [at |-> "read", files |-> files, file |-> 1,
                                   current_counter |-> call.counter_file,
                                   successful |-> 0]]
    /\ UNCHANGED <<pc, dir_exists, json_files, jd_requirements, candidates, idx,
                   agent, results, ranked, llm_calls, error>>

\* await file.read() returns a file above MAX_FILE_SIZE: failed, continue
ReadReturnsTooLarge(r) ==
    /\ pc = "call"
    /\ call.request[r].at = "read"
    /\ LET req == NextFile(call.request[r])
       IN  call' = [call EXCEPT !.request[r] = req,
                                !.counter_file = CounterAfter(req)]
    /\ UNCHANGED <<pc, dir_exists, json_files, jd_requirements, candidates, idx,
                   agent, results, ranked, llm_calls, error>>

\* await file.read() returns: the temporary file is written, the counter
\* of the request goes up and resume_parser.parse is awaited
ReadReturns(r) ==
    /\ pc = "call"
    /\ call.request[r].at = "read"
    /\ call' = [call EXCEPT !.request[r].at = "parse",
                            !.request[r].current_counter = @ + 1]
    /\ UNCHANGED <<pc, dir_exists, json_files, jd_requirements, candidates, idx,
                   agent, results, ranked, llm_calls, error>>

\* resume_parser.parse returns: candidate_<current_counter>.json is written
ParseReturns(r) ==
    /\ pc = "call"
    /\ call.request[r].at = "parse"
    /\ LET req == NextFile([call.request[r] EXCEPT !.successful = @ + 1])
       IN  call' = [call EXCEPT
                      !.saved = Append(@, [n |-> call.request[r].current_counter,
                                           request |-> r,
                                           file |-> call.request[r].file]),
                      !.request[r] = req,
                      !.counter_file = CounterAfter(req)]
    /\ UNCHANGED <<pc, dir_exists, json_files, jd_requirements, candidates, idx,
                   agent, results, ranked, llm_calls, error>>

\* resume_parser.parse raises: the file is reported as failed
ParseRaises(r) ==
    /\ pc = "call"
    /\ call.request[r].at = "parse"
    /\ LET req == NextFile(call.request[r])
       IN  call' = [call EXCEPT !.request[r] = req,
                                !.counter_file = CounterAfter(req)]
    /\ UNCHANGED <<pc, dir_exists, json_files, jd_requirements, candidates, idx,
                   agent, results, ranked, llm_calls, error>>

NextBatch ==
    \/ \E r \in Requests, files \in 1..MaxBatch : BatchParseStarts(r, files)
    \/ \E r \in Requests : ReadReturnsTooLarge(r)
    \/ \E r \in Requests : ReadReturns(r)
    \/ \E r \in Requests : ParseReturns(r)
    \/ \E r \in Requests : ParseRaises(r)

SpecBatch == InitBatch /\ [][NextBatch]_vars

\* no request is between its start and its return
BatchQuiet == \A r \in Requests : call.request[r].at \in {"idle", "returned"}

\* C29: across any interleaving of batch-parse requests, no two
\* successfully parsed resumes are ever saved under the same
\* candidate_<n>.json name, so that no stored candidate is overwritten, and
\* the persisted counter ends at least as large as the highest n used.
C29_NoCandidateOverwritten ==
    /\ \A i, j \in 1..Len(call.saved) :
          i # j => call.saved[i].n # call.saved[j].n
    /\ BatchQuiet =>
          \A i \in 1..Len(call.saved) : call.counter_file >= call.saved[i].n

\* two requests saved under the same name
C29_NamesNeverReused ==
    \A i, j \in 1..Len(call.saved) : i # j => call.saved[i].n # call.saved[j].n

\* the counter is not below a name in use once the requests are over
C29_CounterCoversNames ==
    BatchQuiet => \A i \in 1..Len(call.saved) : call.counter_file >= call.saved[i].n


(***************************************************************************)
(* SpecKeywords: the functions of utils/factual_extraction.py applied to   *)
(* candidates whose only degree text is one keyword of the tiers           *)
(***************************************************************************)
TierKeywords == Range(high_relevance) \cup Range(medium_relevance) \cup Range(generic_degree)

KeywordCandidates ==
    { [EmptyDoc EXCEPT !.name = "Dee", !.has_email = TRUE,
                       !.education = << [degree |-> keyword] >>] :
        keyword \in TierKeywords }

InitKeywords ==
    /\ pc = "call"
    /\ dir_exists = FALSE
    /\ json_files = <<>>
    /\ jd_requirements = [isdict |-> TRUE, value |-> EmptyJD]
    /\ candidates = <<>>
    /\ idx = 0
    /\ agent = [a \in Agents |-> IdleAgent]
    /\ results = <<>>
    /\ ranked = <<>>
    /\ llm_calls = 0
    /\ error = NoError
    /\ \E candidate \in KeywordCandidates, jd \in FactJDs :
          call = [fn |-> "", candidate |-> candidate, jd |-> jd, out |-> <<>>]

SpecKeywords == InitKeywords /\ [][NextFacts]_vars

\* C30: every medium-relevance keyword is reachable as a 70 tier: a
\* candidate whose only degree text is a keyword of the medium list gets
\* education_score 70, not 100.
C30_MediumKeywordScores70 ==
    (/\ call.fn = "check_education_relevance"
     /\ Len(call.candidate.education) = 1
     /\ call.candidate.education[1].degree \in Range(medium_relevance)) =>
       call.out.score = 70

\* the medium keywords without the letters "cs" do score 70
C30_MediumWithoutCsScores70 ==
    (/\ call.fn = "check_education_relevance"
     /\ Len(call.candidate.education) = 1
     /\ call.candidate.education[1].degree \in Range(medium_relevance)) =>
       call.out.score = IF Contains(DegreesText, <<"c", "s">>) THEN 100 ELSE 70

=============================================================================
